---- MODULE Spec2Model ----
(***************************************************************************)
(* Joke corpus curation of punnyland: the AutoReclassifier of              *)
(* tools/auto_reclassify.py (analyze, then apply a reclassification plan   *)
(* to the persisted corpus with a backup taken first) together with the    *)
(* JokeRater it rates every joke with.                                     *)
(*                                                                         *)
(* A file is modelled by what a reader finds in it: a JSON document        *)
(* (kind "json", with the document and the way it is laid out as text),    *)
(* nothing ("missing"), a proper prefix of a document, the zero-length     *)
(* prefix that open(path, 'w') leaves included ("truncated"), or other     *)
(* bytes that are not JSON ("garbage").                                    *)
(* A document is the ordered list of its top-level members, as Python's    *)
(* dict keeps them.  Confidences are held in thousandths, which is what    *)
(* round(confidence, 3) leaves of them.                                    *)
(***************************************************************************)
EXTENDS Integers, Sequences, FiniteSets, TLC

\* ------------------------------------------------------------------ bounds
NumJokes == 2
MaxEntries == 2
MaxScore == 2
MaxAudited == 3
MaxCalls == 2
MaxDays == 2
MaxPackages == 3
MaxHeard == 201
MaxVaried == 2
MaxRuns == 2

\* --------------------------------------------------------------- the jokes
JokePool ==
  << "Why did the chicken cross the road? To get to the other side!",
     "What do you call a bear with no teeth? A gummy bear!",
     "?!?!",
     "I used to hate facial hair, but then it grew on me.",
     "Moo-sician cows play auto-tuna! Paws for concern! A-mew-sing!",
     "Why don't scientists trust atoms? Because they make up everything!" >>

Min(a, b) == IF a <= b THEN a ELSE b

Jokes == { JokePool[i] : i \in 1..Min(NumJokes, Len(JokePool)) }

\* Other texts the raters and validators are given; a character outside
\* ASCII is written \\uXXXX.
TextPool ==
  << "",
     "!!!!!!!!!!!!",
     "1234567890",
     "          ",
     "Unremarkable.",
     "What the hell, lol! What the hell, lol! What the hell, lol! What the hell, lol! What the hell, lol! What the hell, lol! What the hell, lol! What the hell, lol! What the hell, lol! What the hell, lol! ",
     "Caf\\u00e9 jokes are na\\u00efve, haha",
     "It\\u2019s a fine day \\u2014 truly fine." >>

Texts ==
  { TextPool[i] : i \in DOMAIN TextPool }
    \cup { JokePool[1], JokePool[2], JokePool[5], JokePool[6] }

\* What rate_corniness reads off a joke: its length, per level the number of
\* keywords contained and of patterns matched, count_puns, and the number of
\* '?' and '!' characters.
Features(joke) ==
  CASE joke = JokePool[1] ->
         [len |-> 61, kw |-> <<0, 1, 0, 0, 0>>, pt |-> <<0, 1, 0, 0, 0>>,
          puns |-> 5, q |-> 1, e |-> 1]
    [] joke = JokePool[2] ->
         [len |-> 52, kw |-> <<0, 1, 3, 0, 0>>, pt |-> <<0, 1, 1, 0, 0>>,
          puns |-> 5, q |-> 1, e |-> 1]
    [] joke = JokePool[3] ->
         [len |-> 4, kw |-> <<0, 0, 0, 0, 0>>, pt |-> <<0, 0, 0, 0, 0>>,
          puns |-> 0, q |-> 2, e |-> 2]
    [] joke = JokePool[4] ->
         [len |-> 51, kw |-> <<2, 0, 0, 0, 0>>, pt |-> <<2, 0, 0, 0, 0>>,
          puns |-> 5, q |-> 0, e |-> 0]
    [] joke = JokePool[5] ->
         [len |-> 61, kw |-> <<0, 0, 1, 2, 2>>, pt |-> <<0, 0, 0, 1, 2>>,
          puns |-> 5, q |-> 0, e |-> 3]
    [] joke = TextPool[1] ->
         [len |-> 0, kw |-> <<0, 0, 0, 0, 0>>, pt |-> <<0, 0, 0, 0, 0>>,
          puns |-> 0, q |-> 0, e |-> 0]
    [] joke = TextPool[2] ->
         [len |-> 12, kw |-> <<0, 0, 0, 0, 0>>, pt |-> <<0, 0, 0, 0, 1>>,
          puns |-> 0, q |-> 0, e |-> 12]
    [] joke = TextPool[3] ->
         [len |-> 10, kw |-> <<0, 0, 0, 0, 0>>, pt |-> <<0, 0, 0, 0, 0>>,
          puns |-> 0, q |-> 0, e |-> 0]
    [] joke = TextPool[4] ->
         [len |-> 10, kw |-> <<0, 0, 0, 0, 0>>, pt |-> <<0, 0, 0, 0, 0>>,
          puns |-> 0, q |-> 0, e |-> 0]
    [] joke = TextPool[5] ->
         [len |-> 13, kw |-> <<0, 0, 0, 0, 0>>, pt |-> <<0, 0, 0, 0, 0>>,
          puns |-> 0, q |-> 0, e |-> 0]
    [] joke = TextPool[6] ->
         [len |-> 200, kw |-> <<0, 0, 0, 0, 0>>, pt |-> <<0, 0, 0, 0, 1>>,
          puns |-> 5, q |-> 0, e |-> 10]
    [] joke = TextPool[7] ->
         [len |-> 26, kw |-> <<0, 0, 0, 0, 0>>, pt |-> <<0, 0, 0, 0, 0>>,
          puns |-> 2, q |-> 0, e |-> 0]
    [] joke = TextPool[8] ->
         [len |-> 29, kw |-> <<0, 0, 0, 0, 0>>, pt |-> <<0, 0, 0, 0, 0>>,
          puns |-> 3, q |-> 0, e |-> 0]
    [] OTHER ->
         [len |-> 66, kw |-> <<0, 0, 0, 0, 0>>, pt |-> <<0, 0, 0, 0, 0>>,
          puns |-> 5, q |-> 1, e |-> 1]

Levels == 1..5

\* ---------------------------------------------------------------- JokeRater
B(cond, n) == IF cond THEN n ELSE 0

\* The five scores of rate_corniness (lines 141-191) from the features of
\* a joke.
ScoresOf(f) ==
  LET base == [l \in Levels |-> f.kw[l] * 2 + f.pt[l] * 3]
      byLen == [l \in Levels |->
                 CASE l = 1 -> B(f.len <= 60, 1)
                   [] l = 2 -> B(f.len > 60 /\ f.len <= 100, 1)
                   [] l = 3 -> B(f.len > 100 /\ f.len <= 140, 1)
                   [] l = 4 -> B(f.len > 140 /\ f.len <= 170, 1)
                   [] OTHER -> B(f.len > 170, 2)]
      byPuns == [l \in Levels |->
                 CASE l = 1 -> B(f.puns = 0, 2)
                   [] l = 2 -> B(f.puns = 1, 2)
                   [] l = 3 -> B(f.puns = 2, 2)
                   [] OTHER -> B(f.puns >= 3, 1)]
      byMarks == [l \in Levels |->
                 CASE l = 1 -> 0
                   [] l \in {2, 3} -> B(f.q >= 1, 1)
                   [] OTHER -> B(f.q >= 2 \/ f.e >= 2, 1)]
  IN  [l \in Levels |-> base[l] + byLen[l] + byPuns[l] + byMarks[l]]

Scores(joke) == ScoresOf(Features(joke))

\* max(scores, key=scores.get): the first key, in dict order 1..5, holding
\* the largest score.
RECURSIVE MaxFrom(_, _, _)
MaxFrom(scores, best, l) ==
  IF l > 5 THEN best
  ELSE MaxFrom(scores, IF scores[l] > scores[best] THEN l ELSE best, l + 1)

\* The maximum taking the last of the keys that hold the largest score.
BestLevel_last_wins(scores) ==
  CHOOSE l \in Levels :
    /\ \A k \in Levels : scores[k] <= scores[l]
    /\ \A k \in Levels : k > l => scores[k] < scores[l]

BestLevel(scores) == MaxFrom(scores, 1, 2)

SumScores(scores) == scores[1] + scores[2] + scores[3] + scores[4] + scores[5]

\* round(n / d, 3) in thousandths (ties go to the even neighbour).
Round3(n, d) ==
  LET q == (n * 1000) \div d
      r == (n * 1000) % d
  IN  IF 2 * r > d THEN q + 1
      ELSE IF 2 * r < d THEN q
      ELSE IF q % 2 = 0 THEN q ELSE q + 1

\* Lines 193-199: the best level and its share max_score / max(total, 1).
BestOf(scores) ==
  LET best_level == BestLevel(scores)
      total_score == SumScores(scores)
  IN  [level |-> best_level,
       num |-> scores[best_level],
       den |-> IF total_score > 1 THEN total_score ELSE 1]

rate_corniness(joke) == BestOf(Scores(joke))

\* Lines 217-227: the rating record, its confidence rounded.
Rounded(r) == [corniness_level |-> r.level, confidence |-> Round3(r.num, r.den)]

rate_joke(joke) == Rounded(rate_corniness(joke))

\* ---------------------------------------------------- ImprovedJokeRater
\* What rate_corniness_improved reads off a joke: its length; per level
\* whether a setup pattern matches, the number of pun indicators contained,
\* whether a question format is contained, the number of corniness markers
\* contained; is_qa_format; count_actual_puns; and the four overrides.
ImprovedFeatures(joke) ==
  CASE joke = TextPool[1] ->
         [len |-> 0, setup |-> <<FALSE, FALSE, FALSE, FALSE, FALSE>>, ind |-> <<0, 0, 0, 0, 0>>,
          qf |-> <<FALSE, FALSE, FALSE, FALSE, FALSE>>, mk |-> <<0, 0, 0, 0, 0>>, qa |-> FALSE, puns |-> 0,
          cant |-> FALSE, gummy |-> FALSE, beef |-> FALSE, tuna |-> FALSE]
    [] joke = TextPool[2] ->
         [len |-> 12, setup |-> <<FALSE, FALSE, FALSE, FALSE, FALSE>>, ind |-> <<0, 0, 0, 0, 0>>,
          qf |-> <<FALSE, FALSE, FALSE, FALSE, FALSE>>, mk |-> <<0, 0, 0, 0, 0>>, qa |-> FALSE, puns |-> 0,
          cant |-> FALSE, gummy |-> FALSE, beef |-> FALSE, tuna |-> FALSE]
    [] joke = TextPool[3] ->
         [len |-> 10, setup |-> <<FALSE, FALSE, FALSE, FALSE, FALSE>>, ind |-> <<0, 0, 0, 0, 0>>,
          qf |-> <<FALSE, FALSE, FALSE, FALSE, FALSE>>, mk |-> <<0, 0, 0, 0, 0>>, qa |-> FALSE, puns |-> 0,
          cant |-> FALSE, gummy |-> FALSE, beef |-> FALSE, tuna |-> FALSE]
    [] joke = TextPool[4] ->
         [len |-> 10, setup |-> <<FALSE, FALSE, FALSE, FALSE, FALSE>>, ind |-> <<0, 0, 0, 0, 0>>,
          qf |-> <<FALSE, FALSE, FALSE, FALSE, FALSE>>, mk |-> <<0, 0, 0, 0, 0>>, qa |-> FALSE, puns |-> 0,
          cant |-> FALSE, gummy |-> FALSE, beef |-> FALSE, tuna |-> FALSE]
    [] joke = TextPool[5] ->
         [len |-> 13, setup |-> <<FALSE, FALSE, FALSE, FALSE, FALSE>>, ind |-> <<0, 0, 0, 0, 0>>,
          qf |-> <<FALSE, FALSE, FALSE, FALSE, FALSE>>, mk |-> <<0, 0, 0, 0, 0>>, qa |-> FALSE, puns |-> 0,
          cant |-> FALSE, gummy |-> FALSE, beef |-> FALSE, tuna |-> FALSE]
    [] joke = TextPool[6] ->
         [len |-> 200, setup |-> <<FALSE, FALSE, FALSE, FALSE, FALSE>>, ind |-> <<0, 0, 0, 0, 0>>,
          qf |-> <<FALSE, FALSE, FALSE, FALSE, FALSE>>, mk |-> <<0, 0, 0, 0, 0>>, qa |-> FALSE, puns |-> 0,
          cant |-> FALSE, gummy |-> FALSE, beef |-> FALSE, tuna |-> FALSE]
    [] joke = TextPool[7] ->
         [len |-> 26, setup |-> <<FALSE, FALSE, FALSE, FALSE, FALSE>>, ind |-> <<0, 0, 0, 0, 0>>,
          qf |-> <<FALSE, FALSE, FALSE, FALSE, FALSE>>, mk |-> <<0, 0, 0, 0, 0>>, qa |-> FALSE, puns |-> 0,
          cant |-> FALSE, gummy |-> FALSE, beef |-> FALSE, tuna |-> FALSE]
    [] joke = TextPool[8] ->
         [len |-> 29, setup |-> <<FALSE, FALSE, FALSE, FALSE, FALSE>>, ind |-> <<0, 0, 0, 0, 0>>,
          qf |-> <<FALSE, FALSE, FALSE, FALSE, FALSE>>, mk |-> <<0, 0, 0, 0, 0>>, qa |-> FALSE, puns |-> 0,
          cant |-> FALSE, gummy |-> FALSE, beef |-> FALSE, tuna |-> FALSE]
    [] joke = JokePool[1] ->
         [len |-> 61, setup |-> <<FALSE, TRUE, FALSE, FALSE, FALSE>>, ind |-> <<0, 0, 0, 0, 0>>,
          qf |-> <<FALSE, TRUE, FALSE, FALSE, FALSE>>, mk |-> <<0, 0, 0, 0, 0>>, qa |-> TRUE, puns |-> 0,
          cant |-> FALSE, gummy |-> FALSE, beef |-> FALSE, tuna |-> FALSE]
    [] joke = JokePool[2] ->
         [len |-> 52, setup |-> <<FALSE, TRUE, TRUE, FALSE, FALSE>>, ind |-> <<0, 0, 1, 0, 0>>,
          qf |-> <<FALSE, TRUE, TRUE, FALSE, FALSE>>, mk |-> <<0, 0, 1, 0, 0>>, qa |-> TRUE, puns |-> 1,
          cant |-> FALSE, gummy |-> TRUE, beef |-> FALSE, tuna |-> FALSE]
    [] joke = JokePool[5] ->
         [len |-> 61, setup |-> <<FALSE, FALSE, FALSE, TRUE, TRUE>>, ind |-> <<0, 0, 0, 1, 0>>,
          qf |-> <<FALSE, FALSE, FALSE, FALSE, FALSE>>, mk |-> <<0, 0, 0, 1, 0>>, qa |-> FALSE, puns |-> 5,
          cant |-> FALSE, gummy |-> FALSE, beef |-> FALSE, tuna |-> TRUE]
    [] joke = JokePool[6] ->
         [len |-> 66, setup |-> <<FALSE, TRUE, FALSE, FALSE, FALSE>>, ind |-> <<0, 1, 0, 0, 0>>,
          qf |-> <<FALSE, TRUE, FALSE, FALSE, FALSE>>, mk |-> <<0, 0, 0, 0, 0>>, qa |-> TRUE, puns |-> 2,
          cant |-> FALSE, gummy |-> FALSE, beef |-> FALSE, tuna |-> FALSE]

base_score == <<5, 10, 20, 30, 20>>

length_preference ==
  << <<20, 80>>, <<40, 100>>, <<45, 90>>, <<60, 140>>, <<80, 180>> >>

\* Lines 225-232.
LengthScore(l, len) ==
  IF length_preference[l][1] <= len /\ len <= length_preference[l][2] THEN 3
  ELSE IF len < length_preference[l][1] THEN 0 - 2
  ELSE IF len > length_preference[l][2] + 20 THEN 0 - 1
  ELSE 0

\* Lines 200-234: the score of one level from its patterns.
LevelScore(f, l) ==
  base_score[l] + B(f.setup[l], 15) + f.ind[l] * 8 + B(f.qf[l], 5)
    + f.mk[l] * 3 + LengthScore(l, f.len)

\* Lines 236-269: structural bonuses, pun density and overrides.
Bonuses(f, l) ==
  CASE l = 1 -> B(f.puns = 0, 8)
    [] l = 2 -> B(f.qa, 5) + B(f.puns = 1, 5)
    [] l = 3 -> B(f.qa, 3) + B(f.puns = 1, 3) + B(f.puns = 2, 6)
                  + B(f.cant, 10) + B(f.gummy, 10) + B(f.beef, 10)
    [] l = 4 -> B(f.puns = 2, 3) + B(f.puns >= 3, 6) + B(f.tuna, 10)
    [] OTHER -> B(f.puns >= 3, 4)

ImprovedScoresOf(f) == [l \in Levels |-> LevelScore(f, l) + Bonuses(f, l)]

ImprovedScores(joke) == ImprovedScoresOf(ImprovedFeatures(joke))

\* Line 278: max_score / max(total_score, 1), or 0.1 when no level scored;
\* a confidence is the fraction <<numerator, denominator>>.
Share(max_score, total_score) ==
  IF total_score > 0 THEN <<max_score, total_score>> ELSE <<1, 10>>

\* The boost without its min(1.0, ...).
Boost_uncapped(max_score, confidence) ==
  IF max_score < 20 THEN confidence
  ELSE <<6 * confidence[1], 5 * confidence[2]>>

\* Lines 281-282: min(1.0, confidence * 1.2) at max_score >= 20.
Boost(max_score, confidence) ==
  IF max_score < 20 THEN confidence
  ELSE IF 6 * confidence[1] >= 5 * confidence[2] THEN <<1, 1>>
  ELSE <<6 * confidence[1], 5 * confidence[2]>>

Boosted(scores, best_level) ==
  [level |-> best_level,
   confidence |-> Boost(scores[best_level],
                        Share(scores[best_level], SumScores(scores)))]

\* Lines 272-284.
ImprovedBestOf(scores) == Boosted(scores, BestLevel(scores))

rate_corniness_improved(joke) == ImprovedBestOf(ImprovedScores(joke))

\* ------------------------------------------------------- validate_content
\* What validate_content reads off a joke: its length, whether strip()
\* leaves nothing, the forbidden words and the explanation markers (of
\* JokeRater and of ImprovedJokeRater) its lower case contains, in list
\* order, whether it encodes as ASCII and whether it matches the pattern of
\* allowed characters.
Content(joke) ==
  CASE joke = TextPool[1] ->
         [len |-> 0, blank |-> TRUE, forbidden |-> <<>>,
          markers |-> <<>>, improved_markers |-> <<>>,
          ascii |-> TRUE, allowed |-> TRUE]
    [] joke = TextPool[2] ->
         [len |-> 12, blank |-> FALSE, forbidden |-> <<>>,
          markers |-> <<>>, improved_markers |-> <<>>,
          ascii |-> TRUE, allowed |-> TRUE]
    [] joke = TextPool[3] ->
         [len |-> 10, blank |-> FALSE, forbidden |-> <<>>,
          markers |-> <<>>, improved_markers |-> <<>>,
          ascii |-> TRUE, allowed |-> TRUE]
    [] joke = TextPool[4] ->
         [len |-> 10, blank |-> TRUE, forbidden |-> <<>>,
          markers |-> <<>>, improved_markers |-> <<>>,
          ascii |-> TRUE, allowed |-> TRUE]
    [] joke = TextPool[5] ->
         [len |-> 13, blank |-> FALSE, forbidden |-> <<>>,
          markers |-> <<>>, improved_markers |-> <<>>,
          ascii |-> TRUE, allowed |-> TRUE]
    [] joke = TextPool[6] ->
         [len |-> 200, blank |-> FALSE, forbidden |-> <<"hell">>,
          markers |-> <<"lol">>, improved_markers |-> <<"lol">>,
          ascii |-> TRUE, allowed |-> TRUE]
    [] joke = TextPool[7] ->
         [len |-> 26, blank |-> FALSE, forbidden |-> <<>>,
          markers |-> <<"haha">>, improved_markers |-> <<"haha">>,
          ascii |-> FALSE, allowed |-> FALSE]
    [] joke = TextPool[8] ->
         [len |-> 29, blank |-> FALSE, forbidden |-> <<>>,
          markers |-> <<>>, improved_markers |-> <<>>,
          ascii |-> FALSE, allowed |-> TRUE]
    [] joke = JokePool[1] ->
         [len |-> 61, blank |-> FALSE, forbidden |-> <<>>,
          markers |-> <<>>, improved_markers |-> <<>>,
          ascii |-> TRUE, allowed |-> TRUE]
    [] joke = JokePool[2] ->
         [len |-> 52, blank |-> FALSE, forbidden |-> <<>>,
          markers |-> <<>>, improved_markers |-> <<>>,
          ascii |-> TRUE, allowed |-> TRUE]
    [] joke = JokePool[5] ->
         [len |-> 61, blank |-> FALSE, forbidden |-> <<>>,
          markers |-> <<>>, improved_markers |-> <<>>,
          ascii |-> TRUE, allowed |-> TRUE]
    [] joke = JokePool[6] ->
         [len |-> 66, blank |-> FALSE, forbidden |-> <<>>,
          markers |-> <<"because">>, improved_markers |-> <<>>,
          ascii |-> TRUE, allowed |-> TRUE]

max_length == 180

min_length == 10

Issue(kind) == [kind |-> kind]

\* The length checks with len <= min_length for "too short".
LengthIssues_min_inclusive(c) ==
  (IF c.len > max_length
   THEN << [kind |-> "Too long", len |-> c.len, max |-> max_length] >>
   ELSE << >>)
  \o (IF c.len <= min_length
      THEN << [kind |-> "Too short", len |-> c.len, min |-> min_length] >>
      ELSE << >>)
  \o (IF c.blank THEN << Issue("Empty joke") >> ELSE << >>)

LengthIssues(c) ==
  (IF c.len > max_length
   THEN << [kind |-> "Too long", len |-> c.len, max |-> max_length] >>
   ELSE << >>)
  \o (IF c.len < min_length
      THEN << [kind |-> "Too short", len |-> c.len, min |-> min_length] >>
      ELSE << >>)
  \o (IF c.blank THEN << Issue("Empty joke") >> ELSE << >>)

WordIssues(kind, words) ==
  [i \in DOMAIN words |-> [kind |-> kind, word |-> words[i]]]

AsciiIssues(c) ==
  IF ~c.ascii /\ ~c.allowed
  THEN << Issue("Contains non-ASCII characters") >>
  ELSE << >>

\* The checks stopping at the first group that finds something.
IssuesOf_short_circuit(c, markers) ==
  IF LengthIssues(c) # << >> THEN LengthIssues(c)
  ELSE IF c.forbidden # << >>
  THEN WordIssues("Contains forbidden word", c.forbidden)
  ELSE IF markers # << >> THEN WordIssues("Contains explanation", markers)
  ELSE AsciiIssues(c)

IssuesOf(c, markers) ==
  LengthIssues(c) \o WordIssues("Contains forbidden word", c.forbidden)
    \o WordIssues("Contains explanation", markers) \o AsciiIssues(c)

Verdict(issues) == [ok |-> Len(issues) = 0, issues |-> issues]

\* JokeRater.validate_content
validate_content(joke) ==
  Verdict(IssuesOf(Content(joke), Content(joke).markers))

\* ImprovedJokeRater.validate_content
improved_validate_content(joke) ==
  Verdict(IssuesOf(Content(joke), Content(joke).improved_markers))

\* ------------------------------------------------------- JSON documents
\* A document: the members of the top-level object in file order, each a key
\* with its list of jokes.
EmptyDoc(keys) == [i \in DOMAIN keys |-> [key |-> keys[i], jokes |-> <<>>]]

KeysOf(doc) == { doc[i].key : i \in DOMAIN doc }

HasKey(doc, k) == \E i \in DOMAIN doc : doc[i].key = k

IndexOf(doc, k) == CHOOSE i \in DOMAIN doc : doc[i].key = k

ListOf(doc, k) == doc[IndexOf(doc, k)].jokes

SetList(doc, k, list) == [doc EXCEPT ![IndexOf(doc, k)].jokes = list]

Contains(list, x) == \E i \in DOMAIN list : list[i] = x

Count(list, x) == Cardinality({ i \in DOMAIN list : list[i] = x })

ListRemove_every(list, x) == SelectSeq(list, LAMBDA y : y # x)

\* list.remove(x): drops the first occurrence.
ListRemove(list, x) ==
  LET i == CHOOSE j \in DOMAIN list :
             list[j] = x /\ \A k \in 1..(j - 1) : list[k] # x
  IN  SubSeq(list, 1, i - 1) \o SubSeq(list, i + 1, Len(list))

\* int(key) for a member key; 0 stands for the ValueError int() raises.
IntOf(key) ==
  CASE key = "1" -> 1 [] key = "2" -> 2 [] key = "3" -> 3
    [] key = "4" -> 4 [] key = "5" -> 5 [] key = "01" -> 1
    [] OTHER -> 0

\* str(level)
StrOf(level) ==
  CASE level = 1 -> "1" [] level = 2 -> "2" [] level = 3 -> "3"
    [] level = 4 -> "4" [] OTHER -> "5"

\* for level, joke_list in jokes_data.items(): for joke in joke_list
RECURSIVE EntriesFrom(_, _)
EntriesFrom(doc, i) ==
  IF i > Len(doc) THEN <<>>
  ELSE [j \in DOMAIN doc[i].jokes |-> [key |-> doc[i].key, joke |-> doc[i].jokes[j]]]
         \o EntriesFrom(doc, i + 1)

Entries(doc) == EntriesFrom(doc, 1)

\* ------------------------------------------------------------------ files
JsonFile(doc, text) == [kind |-> "json", doc |-> doc, text |-> text]

Broken(kind) == [kind |-> kind, doc |-> <<>>, text |-> ""]

Missing == Broken("missing")

\* json.dump(data, f, indent=2) after open(path, 'w')
Dumped(doc) == JsonFile(doc, "indent2")

Parses(file) == file.kind = "json"

\* A path is the list of its pieces, the suffix being one piece;
\* str.replace('.json', '_backup_pre_reclassify.json') rewrites every piece
\* that is '.json'.  The corpus path is the default one, a .json path, so
\* that the backup is a sibling file of the corpus.
DefaultJokesFile == <<"punnyland/data/jokes", ".json">>

BackupPath(path) ==
  [i \in DOMAIN path |->
     IF path[i] = ".json" THEN "_backup_pre_reclassify.json" ELSE path[i]]

PathsOf(path) == { path, BackupPath(path) }

\* ------------------------------------------------------------------- state
\* jokes_file, fs: the corpus path and the files by path.
\* plan: the plan the caller holds; analyzed: the document and min_confidence
\* it was built from; rated: rate_joke calls of the last analyze; repeated:
\* the last analyze met the document and min_confidence of the one before.
\* op, pc, err, stopped_at: the operation in hand, its position, the
\* exception it ended with, the position it was stopped at.
\* args and the locals of apply_reclassification; result: what it returned.
\* pre: the files as they were when the operation in hand was called.
VARIABLES jokes_file, fs, plan, analyzed, rated, repeated, op, pc, err,
          stopped_at, args, original_data, candidates_to_move, jokes_data,
          moves_applied, moves_by_pattern, result, pre

\* given: what a rater is handed ("text", "scores" or "nothing"); text and
\* scores: the joke text and the five level scores; corniness,
\* improved_corniness, validity, improved_validity: what rate_corniness,
\* rate_corniness_improved and the two validate_content returned for the
\* text; best, improved_best: what the two raters make of the scores.  Each
\* is a list of no or one value.
VARIABLES given, text, scores, corniness, improved_corniness, validity,
          improved_validity, best, improved_best

\* auditor_jokes: the JokesAuditor's jokes; audit_pc: its position in
\* detect_duplicates; all_jokes, outer, inner, duplicates: the locals of
\* detect_duplicates, outer and inner being its loop indices from 1;
\* compared: the index pairs handed to token_set_ratio so far;
\* audit_result: what it returned, a list of no or one value.
VARIABLES auditor_jokes, audit_pc, all_jokes, outer, inner, duplicates,
          compared, audit_result

reclassifier_vars ==
  << jokes_file, fs, plan, analyzed, rated, repeated, op, pc, err,
     stopped_at, args, original_data, candidates_to_move, jokes_data,
     moves_applied, moves_by_pattern, result, pre >>

rater_vars ==
  << given, text, scores, corniness, improved_corniness, validity,
     improved_validity, best, improved_best >>

auditor_vars ==
  << auditor_jokes, audit_pc, all_jokes, outer, inner, duplicates,
     compared, audit_result >>

\* norm_text: the text a normalizer is handed; norm_trace: the calls made
\* on it, each with the function called, its argument and what it returned.
VARIABLES norm_text, norm_trace

\* user_data, config_file: the UserProfile's data and what its config file
\* holds; today: the calendar date, counted in days; returned: what the
\* last method called returned, a list of no or one value; console: what the
\* last command printed; added: the jokes handed to add_joke_to_history so
\* far, in call order.
VARIABLES user_data, config_file, today, returned, console, added

\* manager_jokes: the JokeManager's jokes_data; packages: the daily joke
\* packages created so far, each with its date.
VARIABLES manager_jokes, packages

\* dedup_file: the corpus file of deduplicate_jokes; dedup_input: what it
\* held before the last run; dedup_runs: the runs made; dedup_removed: the
\* duplicates_removed of the last run.
VARIABLES dedup_file, dedup_input, dedup_runs, dedup_removed

normalizer_vars == << norm_text, norm_trace >>

profile_vars == << user_data, config_file, today, returned, console, added >>

delivery_vars == << manager_jokes, packages >>

dedup_vars == << dedup_file, dedup_input, dedup_runs, dedup_removed >>

rest_vars == << normalizer_vars, profile_vars, delivery_vars, dedup_vars >>

vars == << reclassifier_vars, rater_vars, auditor_vars, rest_vars >>

NoPlan == [none |-> TRUE]

NoAnalysis == [none |-> TRUE]

NoArgs == [min_confidence |-> 0, backup |-> FALSE, dry_run |-> FALSE]

NoResult == [none |-> TRUE]

backup_file == BackupPath(jokes_file)

\* --------------------------------------- analyze_reclassification_candidates
MinConfidences == { 400, 800 }

Inc(tally, p) ==
  IF p \in DOMAIN tally THEN [tally EXCEPT ![p] = @ + 1] ELSE tally @@ (p :> 1)

NoTally == [p \in {} |-> 0]

EmptyPlan ==
  [high_confidence |-> <<>>, medium_confidence |-> <<>>,
   low_confidence |-> <<>>, already_correct |-> <<>>,
   statistics |-> [correct |-> 0, high_conf_moves |-> 0,
                   medium_conf_moves |-> 0, low_conf_moves |-> 0,
                   patterns |-> NoTally, total_jokes |-> 0,
                   accuracy |-> <<0, 1>>]]

CandidateOf(entry, rating) ==
  [joke |-> entry.joke, from_level |-> IntOf(entry.key),
   to_level |-> rating.corniness_level, confidence |-> rating.confidence]

Candidate(entry) == CandidateOf(entry, rate_joke(entry.joke))

\* The bucketing with the last branch filing under medium_confidence.
Bucket_low_as_medium(acc, c, key, min_confidence) ==
  IF c.to_level = c.from_level
  THEN [acc EXCEPT !.already_correct = Append(@, c),
                   !.statistics.correct = @ + 1]
  ELSE IF c.confidence >= 600
  THEN [acc EXCEPT !.high_confidence = Append(@, c),
                   !.statistics.patterns = Inc(@, <<key, StrOf(c.to_level)>>),
                   !.statistics.high_conf_moves = @ + 1]
  ELSE [acc EXCEPT !.medium_confidence = Append(@, c),
                   !.statistics.patterns = Inc(@, <<key, StrOf(c.to_level)>>),
                   !.statistics.medium_conf_moves = @ + 1]

\* Lines 52-75: the bucket a candidate goes to and the tallies it adds to.
Bucket(acc, c, key, min_confidence) ==
  IF c.to_level = c.from_level
  THEN [acc EXCEPT !.already_correct = Append(@, c),
                   !.statistics.correct = @ + 1]
  ELSE IF c.confidence >= 600
  THEN [acc EXCEPT !.high_confidence = Append(@, c),
                   !.statistics.patterns = Inc(@, <<key, StrOf(c.to_level)>>),
                   !.statistics.high_conf_moves = @ + 1]
  ELSE IF c.confidence >= min_confidence
  THEN [acc EXCEPT !.medium_confidence = Append(@, c),
                   !.statistics.patterns = Inc(@, <<key, StrOf(c.to_level)>>),
                   !.statistics.medium_conf_moves = @ + 1]
  ELSE [acc EXCEPT !.low_confidence = Append(@, c),
                   !.statistics.patterns = Inc(@, <<key, StrOf(c.to_level)>>),
                   !.statistics.low_conf_moves = @ + 1]

\* One turn of the loop body (lines 43-75).
AddEntry(acc, entry, min_confidence) ==
  Bucket(acc, Candidate(entry), entry.key, min_confidence)

RECURSIVE AnalyzeEntries(_, _, _)
AnalyzeEntries(entries, min_confidence, acc) ==
  IF entries = <<>> THEN acc
  ELSE AnalyzeEntries(Tail(entries), min_confidence,
                      AddEntry(acc, Head(entries), min_confidence))

\* The plan built on top of the plan in hand, as if the buckets outlived the
\* call.
BuildPlan_accumulating(doc, min_confidence) ==
  LET p == AnalyzeEntries(Entries(doc), min_confidence,
                          IF plan = NoPlan THEN EmptyPlan ELSE plan)
      n == Len(Entries(doc))
  IN  [p EXCEPT !.statistics.total_jokes = n,
                !.statistics.accuracy = <<p.statistics.correct * 100, n>>]

\* The plan the loop leaves, with total_jokes and accuracy (correct * 100 over
\* total_jokes, kept as a fraction) filled in.
BuildPlan(doc, min_confidence) ==
  LET p == AnalyzeEntries(Entries(doc), min_confidence, EmptyPlan)
      n == Len(Entries(doc))
  IN  [p EXCEPT !.statistics.total_jokes = n,
                !.statistics.accuracy = <<p.statistics.correct * 100, n>>]

\* Entries whose key int() rejects.
BadEntries(doc) == { i \in DOMAIN Entries(doc) : IntOf(Entries(doc)[i].key) = 0 }

FirstBad(doc) == CHOOSE i \in BadEntries(doc) : \A j \in BadEntries(doc) : i <= j

\* The exception analyze ends with, "none" when it returns a plan.
AnalyzeError(file) ==
  IF file.kind = "missing" THEN "FileNotFoundError"
  ELSE IF ~Parses(file) THEN "JSONDecodeError"
  ELSE IF BadEntries(file.doc) # {} THEN "ValueError"
  ELSE IF Entries(file.doc) = <<>> THEN "ZeroDivisionError"
  ELSE "none"

\* Number of rate_joke calls analyze makes before it returns or raises.
RatedBy(file) ==
  IF ~Parses(file) THEN 0
  ELSE IF BadEntries(file.doc) # {} THEN FirstBad(file.doc)
  ELSE Len(Entries(file.doc))

\* ---------------------------------------------------- apply_reclassification
\* Lines 149-156: every high_confidence candidate, then the medium_confidence
\* candidates that reach min_confidence.
AtLeast(candidates, min_confidence) ==
  SelectSeq(candidates, LAMBDA c : c.confidence >= min_confidence)

CandidatesToMove(p, min_confidence) ==
  p.high_confidence \o AtLeast(p.medium_confidence, min_confidence)

RECURSIVE TallyPatterns(_, _)
TallyPatterns(candidates, tally) ==
  IF candidates = <<>> THEN tally
  ELSE LET c == Head(candidates)
       IN  TallyPatterns(Tail(candidates),
                         Inc(tally, <<StrOf(c.from_level), StrOf(c.to_level)>>))

\* Lines 187-205 for one candidate, on the loaded jokes_data.
Present(data, candidate) ==
  /\ HasKey(data, StrOf(candidate.from_level))
  /\ Contains(ListOf(data, StrOf(candidate.from_level)), candidate.joke)

WithKey(data, k) ==
  IF HasKey(data, k) THEN data ELSE Append(data, [key |-> k, jokes |-> <<>>])

\* The move without line 194: the joke is appended and counted, never removed.
MoveOne_keeps_source(st, candidate) ==
  LET from_level == StrOf(candidate.from_level)
      to_level == StrOf(candidate.to_level)
  IN  IF Present(st.jokes_data, candidate)
      THEN LET keyed == WithKey(st.jokes_data, to_level)
           IN  [jokes_data |-> SetList(keyed, to_level,
                                       Append(ListOf(keyed, to_level), candidate.joke)),
                moves_applied |-> st.moves_applied + 1,
                moves_by_pattern |-> Inc(st.moves_by_pattern, <<from_level, to_level>>)]
      ELSE st

MoveOne(st, candidate) ==
  LET from_level == StrOf(candidate.from_level)
      to_level == StrOf(candidate.to_level)
  IN  IF Present(st.jokes_data, candidate)
      THEN LET removed == SetList(st.jokes_data, from_level,
                                  ListRemove(ListOf(st.jokes_data, from_level),
                                             candidate.joke))
               keyed == WithKey(removed, to_level)
           IN  [jokes_data |-> SetList(keyed, to_level,
                                       Append(ListOf(keyed, to_level), candidate.joke)),
                moves_applied |-> st.moves_applied + 1,
                moves_by_pattern |-> Inc(st.moves_by_pattern, <<from_level, to_level>>)]
      ELSE st

RECURSIVE MoveAll(_, _)
MoveAll(st, candidates) ==
  IF candidates = <<>> THEN st
  ELSE MoveAll(MoveOne(st, Head(candidates)), Tail(candidates))

ApplyMoves(data, candidates) ==
  MoveAll([jokes_data |-> data, moves_applied |-> 0, moves_by_pattern |-> NoTally],
          candidates)

\* ---------------------------------------------------------- initial corpora
Layouts ==
  { <<"2", "1">>, <<"1", "x">> }

Slots(keys) == (DOMAIN keys) \X Jokes

Placements(keys) == UNION { [1..n -> Slots(keys)] : n \in 0..MaxEntries }

RECURSIVE Place(_, _)
Place(doc, slots) ==
  IF slots = <<>> THEN doc
  ELSE LET s == Head(slots)
       IN  Place([doc EXCEPT ![s[1]].jokes = Append(@, s[2])], Tail(slots))

InitialDocs ==
  UNION { { Place(EmptyDoc(keys), slots) : slots \in Placements(keys) } :
          keys \in Layouts }

InitialFiles ==
  { Missing, Broken("garbage") }
    \cup { JsonFile(d, "other") : d \in InitialDocs }

\* A corpus as persisted: the keys "1".."5" in order, one joke in each list.
ValidDocs ==
  { [l \in Levels |-> [key |-> StrOf(l), jokes |-> << f[l] >>]] :
      f \in [Levels -> Jokes] }

ValidFiles == { JsonFile(d, "other") : d \in ValidDocs }

\* The reclassifier as constructed (lines 23-25) on one of the given corpus
\* files, nothing analyzed or applied yet.
Start(files) ==
  /\ jokes_file = DefaultJokesFile
  /\ \E f \in files :
       fs = [p \in PathsOf(jokes_file) |-> IF p = jokes_file THEN f ELSE Missing]
  /\ plan = NoPlan
  /\ analyzed = NoAnalysis
  /\ rated = 0
  /\ repeated = FALSE
  /\ op = "none"
  /\ pc = "idle"
  /\ err = "none"
  /\ stopped_at = "none"
  /\ args = NoArgs
  /\ original_data = <<>>
  /\ candidates_to_move = <<>>
  /\ jokes_data = <<>>
  /\ moves_applied = 0
  /\ moves_by_pattern = NoTally
  /\ result = NoResult
  /\ pre = fs

\* No rater in use.
NoRater ==
  /\ given = "nothing"
  /\ text = ""
  /\ scores = [l \in Levels |-> 0]
  /\ corniness = << >>
  /\ improved_corniness = << >>
  /\ validity = << >>
  /\ improved_validity = << >>
  /\ best = << >>
  /\ improved_best = << >>

\* No auditor in use.
NoAuditor ==
  /\ auditor_jokes = << >>
  /\ audit_pc = "none"
  /\ all_jokes = << >>
  /\ outer = 0
  /\ inner = 0
  /\ duplicates = << >>
  /\ compared = << >>
  /\ audit_result = << >>

\* No normalizer in use.
NoNormalizer ==
  /\ norm_text = ""
  /\ norm_trace = << >>

\* No UserProfile constructed.
NoProfile ==
  /\ user_data = [none |-> TRUE]
  /\ config_file = [none |-> TRUE]
  /\ today = 0
  /\ returned = << >>
  /\ console = << >>
  /\ added = << >>

\* No JokeManager constructed.
NoDelivery ==
  /\ manager_jokes = << >>
  /\ packages = << >>

\* No deduplication run.
NoDedup ==
  /\ dedup_file = << >>
  /\ dedup_input = << >>
  /\ dedup_runs = 0
  /\ dedup_removed = 0

NoRest == NoNormalizer /\ NoProfile /\ NoDelivery /\ NoDedup

Init == Start(InitialFiles) /\ NoRater /\ NoAuditor /\ NoRest

InitValid == Start(ValidFiles) /\ NoRater /\ NoAuditor /\ NoRest

\* ----------------------------------------------------------------- actions
Resting == { "idle", "analyzed", "done", "error", "interrupted" }

\* What a step inside apply_reclassification never touches.
Caller == << jokes_file, plan, analyzed, rated, repeated, op, stopped_at, args,
             pre, rater_vars, auditor_vars, rest_vars >>

Locals == << original_data, candidates_to_move, jokes_data, moves_applied,
             moves_by_pattern, result >>

ResetLocals ==
  /\ original_data' = <<>>
  /\ candidates_to_move' = <<>>
  /\ jokes_data' = <<>>
  /\ moves_applied' = 0
  /\ moves_by_pattern' = NoTally
  /\ result' = NoResult

\* analyze_reclassification_candidates(min_confidence), lines 27-82.
Analyze(min_confidence) ==
  /\ pc \in Resting
  /\ LET file == fs[jokes_file]
         e == AnalyzeError(file)
     IN  /\ rated' = RatedBy(file)
         /\ err' = e
         /\ repeated' = /\ e = "none"
                         /\ analyzed = [doc |-> file.doc,
                                        min_confidence |-> min_confidence]
         /\ IF e = "none"
            THEN /\ plan' = BuildPlan(file.doc, min_confidence)
                 /\ analyzed' = [doc |-> file.doc, min_confidence |-> min_confidence]
                 /\ pc' = "analyzed"
            ELSE /\ UNCHANGED << plan, analyzed >>
                 /\ pc' = "error"
  /\ op' = "analyze"
  /\ stopped_at' = "none"
  /\ args' = NoArgs
  /\ pre' = fs
  /\ ResetLocals
  /\ UNCHANGED << jokes_file, fs, rater_vars, auditor_vars, rest_vars >>

\* Line 141 never taking the backup branch.
FirstStep_never_backs_up(backup, dry_run) == "collect"

\* Line 141 without its "and not dry_run".
FirstStep_ignores_dry_run(backup, dry_run) ==
  IF backup THEN "backup_read" ELSE "collect"

\* Where apply_reclassification goes first: line 141.
FirstStep(backup, dry_run) ==
  IF backup /\ ~dry_run THEN "backup_read" ELSE "collect"

ApplyStart(min_confidence, backup, dry_run) ==
  /\ pc \in { "analyzed", "done", "error" }
  /\ plan # NoPlan
  /\ op' = "apply"
  /\ args' = [min_confidence |-> min_confidence, backup |-> backup,
              dry_run |-> dry_run]
  /\ pc' = FirstStep(backup, dry_run)
  /\ err' = "none"
  /\ stopped_at' = "none"
  /\ repeated' = FALSE
  /\ pre' = fs
  /\ ResetLocals
  /\ UNCHANGED << jokes_file, fs, plan, analyzed, rated, rater_vars,
                  auditor_vars, rest_vars >>

ReadError(file) ==
  IF file.kind = "missing" THEN "FileNotFoundError" ELSE "JSONDecodeError"

\* Lines 143-144.
BackupRead ==
  /\ pc = "backup_read"
  /\ IF Parses(fs[jokes_file])
     THEN /\ original_data' = fs[jokes_file].doc
          /\ pc' = "backup_open"
          /\ UNCHANGED err
     ELSE /\ pc' = "error"
          /\ err' = ReadError(fs[jokes_file])
          /\ UNCHANGED original_data
  /\ UNCHANGED << Caller, fs, candidates_to_move, jokes_data, moves_applied,
                  moves_by_pattern, result >>

\* Line 145: open(backup_file, 'w') truncates the file it opens.
BackupOpen ==
  /\ pc = "backup_open"
  /\ fs' = [fs EXCEPT ![backup_file] = Broken("truncated")]
  /\ pc' = "backup_dump"
  /\ UNCHANGED << Caller, Locals, err >>

\* Line 145 raising OSError: nothing was opened.
BackupOpenFail ==
  /\ pc = "backup_open"
  /\ pc' = "error"
  /\ err' = "BackupOSError"
  /\ UNCHANGED << Caller, Locals, fs >>

BackupDump_keeps_earlier ==
  /\ pc = "backup_dump"
  /\ fs' = [fs EXCEPT ![backup_file] =
              IF Parses(pre[backup_file]) THEN pre[backup_file]
              ELSE Dumped(original_data)]
  /\ pc' = "collect"
  /\ UNCHANGED << Caller, Locals, err >>

\* Line 146.
BackupDump ==
  /\ pc = "backup_dump"
  /\ fs' = [fs EXCEPT ![backup_file] = Dumped(original_data)]
  /\ pc' = "collect"
  /\ UNCHANGED << Caller, Locals, err >>

\* Line 146 failing inside a try/except that carries on.
BackupDumpFail_swallowed ==
  /\ pc = "backup_dump"
  /\ fs' = [fs EXCEPT ![backup_file] = Broken("truncated")]
  /\ pc' = "collect"
  /\ err' = "BackupOSError"
  /\ UNCHANGED << Caller, Locals >>

\* Line 146 raising OSError part of the way through the document.
BackupDumpFail ==
  /\ pc = "backup_dump"
  /\ fs' = [fs EXCEPT ![backup_file] = Broken("truncated")]
  /\ pc' = "error"
  /\ err' = "BackupOSError"
  /\ UNCHANGED << Caller, Locals >>

\* Lines 149-177 with dry_run.
DryRun ==
  /\ pc = "collect"
  /\ args.dry_run
  /\ candidates_to_move' = CandidatesToMove(plan, args.min_confidence)
  /\ result' = [dry_run |-> TRUE,
                would_move |-> Len(candidates_to_move'),
                patterns |-> TallyPatterns(candidates_to_move', NoTally)]
  /\ pc' = "done"
  /\ UNCHANGED << Caller, fs, err, original_data, jokes_data, moves_applied,
                  moves_by_pattern >>

\* Lines 149-205 without dry_run: collect, load the corpus, move in memory.
LoadAndMove ==
  /\ pc = "collect"
  /\ ~args.dry_run
  /\ candidates_to_move' = CandidatesToMove(plan, args.min_confidence)
  /\ IF Parses(fs[jokes_file])
     THEN LET st == ApplyMoves(fs[jokes_file].doc, candidates_to_move')
          IN  /\ jokes_data' = st.jokes_data
              /\ moves_applied' = st.moves_applied
              /\ moves_by_pattern' = st.moves_by_pattern
              /\ pc' = "save_open"
              /\ UNCHANGED err
     ELSE /\ pc' = "error"
          /\ err' = ReadError(fs[jokes_file])
          /\ UNCHANGED << jokes_data, moves_applied, moves_by_pattern >>
  /\ UNCHANGED << Caller, fs, original_data, result >>

\* Line 208: open(jokes_file, 'w') truncates the corpus file.
SaveOpen ==
  /\ pc = "save_open"
  /\ fs' = [fs EXCEPT ![jokes_file] = Broken("truncated")]
  /\ pc' = "save_dump"
  /\ UNCHANGED << Caller, Locals, err >>

\* Lines 209-220: the document is written and the result returned.
SaveDump ==
  /\ pc = "save_dump"
  /\ fs' = [fs EXCEPT ![jokes_file] = Dumped(jokes_data)]
  /\ result' = [moves_applied |-> moves_applied, patterns |-> moves_by_pattern]
  /\ pc' = "done"
  /\ UNCHANGED << Caller, err, original_data, candidates_to_move, jokes_data,
                  moves_applied, moves_by_pattern >>

\* The process is stopped (killed, power lost) in the middle of
\* apply_reclassification; a file being written keeps what had reached it,
\* and what the process held in memory is gone.
Writing == [backup_dump |-> backup_file, save_dump |-> jokes_file]

Interrupt ==
  /\ pc \in { "backup_read", "backup_open", "backup_dump", "collect",
              "save_open", "save_dump" }
  /\ IF pc \in DOMAIN Writing
     THEN fs' = [fs EXCEPT ![Writing[pc]] = Broken("truncated")]
     ELSE UNCHANGED fs
  /\ pc' = "interrupted"
  /\ stopped_at' = pc
  /\ plan' = NoPlan
  /\ analyzed' = NoAnalysis
  /\ UNCHANGED << jokes_file, rated, repeated, op, err, args, Locals, pre,
                  rater_vars, auditor_vars, rest_vars >>

Next ==
  \/ \E m \in MinConfidences : Analyze(m)
  \/ \E m \in MinConfidences, b \in BOOLEAN, d \in BOOLEAN : ApplyStart(m, b, d)
  \/ BackupRead
  \/ BackupOpen
  \/ BackupOpenFail
  \/ BackupDump
  \/ BackupDumpFail
  \/ DryRun
  \/ LoadAndMove
  \/ SaveOpen
  \/ SaveDump
  \/ Interrupt

Spec == Init /\ [][Next]_vars

\* The same tool started on a corpus of the persisted shape.
SpecValid == InitValid /\ [][Next]_vars

\* ------------------------------------------------- the raters on their own
\* Score vectors handed to the last lines of the raters.
ScoreVectors == [Levels -> { 10 * k : k \in 0..MaxScore }]

RaterInit ==
  /\ Start({ Missing })
  /\ NoAuditor
  /\ NoRest
  /\ \/ given = "text" /\ text \in Texts /\ scores = [l \in Levels |-> 0]
     \/ given = "scores" /\ text = "" /\ scores \in ScoreVectors
  /\ corniness = << >>
  /\ improved_corniness = << >>
  /\ validity = << >>
  /\ improved_validity = << >>
  /\ best = << >>
  /\ improved_best = << >>

\* JokeRater.rate_corniness(text)
RateCorniness ==
  /\ given = "text"
  /\ corniness = << >>
  /\ corniness' = << rate_corniness(text) >>
  /\ UNCHANGED << reclassifier_vars, auditor_vars, rest_vars, given, text, scores,
                  improved_corniness, validity, improved_validity, best,
                  improved_best >>

\* ImprovedJokeRater.rate_corniness_improved(text)
RateCorninessImproved ==
  /\ given = "text"
  /\ improved_corniness = << >>
  /\ improved_corniness' = << rate_corniness_improved(text) >>
  /\ UNCHANGED << reclassifier_vars, auditor_vars, rest_vars, given, text, scores,
                  corniness, validity, improved_validity, best, improved_best >>

\* JokeRater.validate_content(text)
ValidateContent ==
  /\ given = "text"
  /\ validity = << >>
  /\ validity' = << validate_content(text) >>
  /\ UNCHANGED << reclassifier_vars, auditor_vars, rest_vars, given, text, scores,
                  corniness, improved_corniness, improved_validity, best,
                  improved_best >>

\* ImprovedJokeRater.validate_content(text)
ValidateContentImproved ==
  /\ given = "text"
  /\ improved_validity = << >>
  /\ improved_validity' = << improved_validate_content(text) >>
  /\ UNCHANGED << reclassifier_vars, auditor_vars, rest_vars, given, text, scores,
                  corniness, improved_corniness, validity, best,
                  improved_best >>

\* Lines 193-201 of rate_corniness on the scores.
PickBest ==
  /\ given = "scores"
  /\ best = << >>
  /\ best' = << BestOf(scores) >>
  /\ UNCHANGED << reclassifier_vars, auditor_vars, rest_vars, given, text, scores,
                  corniness, improved_corniness, validity, improved_validity,
                  improved_best >>

\* Lines 272-284 of rate_corniness_improved on the scores.
PickBestImproved ==
  /\ given = "scores"
  /\ improved_best = << >>
  /\ improved_best' = << ImprovedBestOf(scores) >>
  /\ UNCHANGED << reclassifier_vars, auditor_vars, rest_vars, given, text, scores,
                  corniness, improved_corniness, validity, improved_validity,
                  best >>

RaterNext ==
  \/ RateCorniness
  \/ RateCorninessImproved
  \/ ValidateContent
  \/ ValidateContentImproved
  \/ PickBest
  \/ PickBestImproved

RaterSpec == RaterInit /\ [][RaterNext]_vars

\* ----------------------------------------------- the auditor on its own
\* The texts an audited corpus is made of: a joke, the same joke in lower
\* case with a dash, a line of punctuation, another joke, and the first joke
\* with one word changed.
AuditPool ==
  << "Why did the chicken cross the road? To get to the other side!",
     "why did the chicken cross the road - to get to the other side",
     "!!!!!!!!!!!!",
     "What do you call a bear with no teeth? A gummy bear!",
     "Why did the chicken cross the street? To get to the other side!" >>

AuditTexts == { AuditPool[k] : k \in DOMAIN AuditPool }

\* Further texts handed to the normalizers, with what they make of them and
\* of the audited texts; a character outside ASCII is written \\uXXXX.
NormPool ==
  << "",
     "     ",
     "'",
     "___",
     "?! _ '",
     "  Hello,   World!  ",
     "Don't  STOP -- believin'",
     "A\tB\nC",
     "Caf\\u00e9 \\u2014 NA\\u00cfVE",
     "\\u2026 \\u201c\\u201d \\u2019",
     "why did the chicken cross the road to get to the other side",
     "what do you call a bear with no teeth a gummy bear",
     "why did the chicken cross the street to get to the other side",
     "_ '",
     "hello world",
     "don't stop believin'",
     "a b c",
     "caf\\u00e9 na\\u00efve" >>

NormTexts ==
  AuditTexts \cup { NormPool[k] : k \in DOMAIN NormPool }

\* _normalize_joke: lower case, every character that is not a word
\* character, white space or an apostrophe replaced by a space, runs of
\* white space collapsed, ends stripped.
normalize_joke(joke) ==
  CASE joke = "Why did the chicken cross the road? To get to the other side!" ->
         "why did the chicken cross the road to get to the other side"
    [] joke = "why did the chicken cross the road - to get to the other side" ->
         "why did the chicken cross the road to get to the other side"
    [] joke = "!!!!!!!!!!!!" ->
         ""
    [] joke = "What do you call a bear with no teeth? A gummy bear!" ->
         "what do you call a bear with no teeth a gummy bear"
    [] joke = "Why did the chicken cross the street? To get to the other side!" ->
         "why did the chicken cross the street to get to the other side"
    [] joke = "" ->
         ""
    [] joke = "     " ->
         ""
    [] joke = "'" ->
         "'"
    [] joke = "___" ->
         "___"
    [] joke = "?! _ '" ->
         "_ '"
    [] joke = "  Hello,   World!  " ->
         "hello world"
    [] joke = "Don't  STOP -- believin'" ->
         "don't stop believin'"
    [] joke = "A\tB\nC" ->
         "a b c"
    [] joke = "Caf\\u00e9 \\u2014 NA\\u00cfVE" ->
         "caf\\u00e9 na\\u00efve"
    [] joke = "\\u2026 \\u201c\\u201d \\u2019" ->
         ""
    [] joke = "why did the chicken cross the road to get to the other side" ->
         "why did the chicken cross the road to get to the other side"
    [] joke = "what do you call a bear with no teeth a gummy bear" ->
         "what do you call a bear with no teeth a gummy bear"
    [] joke = "why did the chicken cross the street to get to the other side" ->
         "why did the chicken cross the street to get to the other side"
    [] joke = "_ '" ->
         "_ '"
    [] joke = "hello world" ->
         "hello world"
    [] joke = "don't stop believin'" ->
         "don't stop believin'"
    [] joke = "a b c" ->
         "a b c"
    [] OTHER ->
         "caf\\u00e9 na\\u00efve"

\* normalize_joke of deduplicate_jokes.py: lower case and ends stripped,
\* then as _normalize_joke.
dedup_normalize_joke(joke) ==
  CASE joke = "Why did the chicken cross the road? To get to the other side!" ->
         "why did the chicken cross the road to get to the other side"
    [] joke = "Why did the chicken cross the street? To get to the pond!" ->
         "why did the chicken cross the street to get to the pond"
    [] joke = "why did the chicken cross the road - to get to the other side" ->
         "why did the chicken cross the road to get to the other side"
    [] joke = "!!!!!!!!!!!!" ->
         ""
    [] joke = "What do you call a bear with no teeth? A gummy bear!" ->
         "what do you call a bear with no teeth a gummy bear"
    [] joke = "Why did the chicken cross the street? To get to the other side!" ->
         "why did the chicken cross the street to get to the other side"
    [] joke = "" ->
         ""
    [] joke = "     " ->
         ""
    [] joke = "'" ->
         "'"
    [] joke = "___" ->
         "___"
    [] joke = "?! _ '" ->
         "_ '"
    [] joke = "  Hello,   World!  " ->
         "hello world"
    [] joke = "Don't  STOP -- believin'" ->
         "don't stop believin'"
    [] joke = "A\tB\nC" ->
         "a b c"
    [] joke = "Caf\\u00e9 \\u2014 NA\\u00cfVE" ->
         "caf\\u00e9 na\\u00efve"
    [] joke = "\\u2026 \\u201c\\u201d \\u2019" ->
         ""
    [] joke = "why did the chicken cross the road to get to the other side" ->
         "why did the chicken cross the road to get to the other side"
    [] joke = "what do you call a bear with no teeth a gummy bear" ->
         "what do you call a bear with no teeth a gummy bear"
    [] joke = "why did the chicken cross the street to get to the other side" ->
         "why did the chicken cross the street to get to the other side"
    [] joke = "_ '" ->
         "_ '"
    [] joke = "hello world" ->
         "hello world"
    [] joke = "don't stop believin'" ->
         "don't stop believin'"
    [] joke = "a b c" ->
         "a b c"
    [] OTHER ->
         "caf\\u00e9 na\\u00efve"

\* A further normalized text the deduplication compares.
Pond == "why did the chicken cross the street to get to the pond"

\* fuzz.token_set_ratio of two normalized texts, a fraction <<num, den>> of
\* 100: 0 when either has no token, 100 when the tokens of one are among
\* those of the other, else the best of the three indel ratios of the
\* sorted token strings.
token_set_ratio(s1, s2) ==
  LET road   == normalize_joke(AuditPool[1])
      bear   == normalize_joke(AuditPool[4])
      street == normalize_joke(AuditPool[5])
  IN  CASE s1 = "" \/ s2 = "" -> <<0, 1>>
        [] s1 = s2 -> <<100, 1>>
        [] {s1, s2} = {road, street} -> <<8600, 91>>
        [] {s1, s2} = {road, bear} -> <<4000, 91>>
        [] {s1, s2} = {road, Pond} -> <<1600, 19>>
        [] {s1, s2} = {street, Pond} -> <<7800, 83>>
        [] {s1, s2} = {bear, Pond} -> <<1400, 29>>
        [] OTHER -> <<1400, 31>>

duplicate_threshold == 85

\* similarity >= self.duplicate_threshold
AtThreshold(similarity) == similarity[1] >= duplicate_threshold * similarity[2]

\* The corpora given to the auditor: the members "1" and "2", holding up to
\* MaxAudited texts between them.
AuditDocs ==
  { [k \in 1..2 |-> [key |-> StrOf(k), jokes |-> IF k = 1 THEN a ELSE b]] :
      <<a, b>> \in { p \in UNION { [1..m -> AuditTexts] \X [1..n -> AuditTexts] :
                                      <<m, n>> \in (0..MaxAudited) \X (0..MaxAudited) } :
                       Len(p[1]) + Len(p[2]) <= MaxAudited } }

\* A JokesAuditor constructed on a corpus, detect_duplicates not yet called.
AuditInit ==
  /\ Start({Missing})
  /\ NoRater
  /\ NoRest
  /\ auditor_jokes \in AuditDocs
  /\ audit_pc = "start"
  /\ all_jokes = << >>
  /\ outer = 0
  /\ inner = 0
  /\ duplicates = << >>
  /\ compared = << >>
  /\ audit_result = << >>

\* all_jokes.append({'level', 'index', 'joke', 'normalized'}), the index
\* counted from 0 within the level.
RECURSIVE CollectFrom(_, _)
CollectFrom(doc, k) ==
  IF k > Len(doc) THEN << >>
  ELSE [n \in DOMAIN doc[k].jokes |->
          [level |-> doc[k].key, index |-> n - 1, joke |-> doc[k].jokes[n],
           normalized |-> normalize_joke(doc[k].jokes[n])]]
         \o CollectFrom(doc, k + 1)

\* Where the two loops stand once the inner one has taken the entry at q
\* with the outer one at p, of n entries: the next pair, or past the end.
After(p, q, n) ==
  IF q < n THEN <<p, q + 1>>
  ELSE IF p + 2 <= n THEN <<p + 1, p + 2>>
  ELSE <<n + 1, n + 1>>

\* The first pair the loops take: the entries 1 and 2, if there are two.
First(n) == IF n >= 2 THEN <<1, 2>> ELSE <<n + 1, n + 1>>

Side(entry) == [level |-> entry.level, index |-> entry.index, text |-> entry.joke]

\* The dict appended to duplicates.
Pair(similarity, joke1, joke2) ==
  [similarity |-> similarity, joke1 |-> Side(joke1), joke2 |-> Side(joke2)]

\* duplicates after the comparison of joke1 with joke2.
Compared(found, joke1, joke2, similarity) ==
  IF AtThreshold(similarity) THEN Append(found, Pair(similarity, joke1, joke2))
  ELSE found

\* detect_duplicates, up to the loops: collects all jokes with metadata.
Collect ==
  /\ audit_pc = "start"
  /\ all_jokes' = CollectFrom(auditor_jokes, 1)
  /\ outer' = First(Len(all_jokes'))[1]
  /\ inner' = First(Len(all_jokes'))[2]
  /\ audit_pc' = IF Len(all_jokes') >= 2 THEN "compare" ELSE "return"
  /\ UNCHANGED << reclassifier_vars, rater_vars, rest_vars, auditor_jokes, duplicates,
                  compared, audit_result >>

\* One turn of the inner loop: joke1 is all_jokes[i], joke2 all_jokes[j].
Compare ==
  /\ audit_pc = "compare"
  /\ duplicates' =
       Compared(duplicates, all_jokes[outer], all_jokes[inner],
                token_set_ratio(all_jokes[outer].normalized,
                                all_jokes[inner].normalized))
  /\ compared' = Append(compared, <<outer, inner>>)
  /\ outer' = After(outer, inner, Len(all_jokes))[1]
  /\ inner' = After(outer, inner, Len(all_jokes))[2]
  /\ audit_pc' = IF outer' <= Len(all_jokes) THEN "compare" ELSE "return"
  /\ UNCHANGED << reclassifier_vars, rater_vars, rest_vars, auditor_jokes, all_jokes,
                  audit_result >>

\* The return statement of detect_duplicates.
Return ==
  /\ audit_pc = "return"
  /\ audit_result' =
       << [total_comparisons |-> (Len(all_jokes) * (Len(all_jokes) - 1)) \div 2,
           duplicates_found |-> Len(duplicates),
           duplicates |-> duplicates] >>
  /\ audit_pc' = "returned"
  /\ UNCHANGED << reclassifier_vars, rater_vars, rest_vars, auditor_jokes, all_jokes,
                  outer, inner, duplicates, compared >>

AuditNext ==
  \/ Collect
  \/ Compare
  \/ Return

AuditSpec == AuditInit /\ [][AuditNext]_vars

\* ------------------------------------------- the normalizers on their own
\* A text in hand, neither normalizer called yet.
NormalizeInit ==
  /\ Start({Missing})
  /\ NoRater
  /\ NoAuditor
  /\ NoProfile
  /\ NoDelivery
  /\ NoDedup
  /\ norm_text \in NormTexts
  /\ norm_trace = << >>

\* What the next call is made on: the text in hand, or what the call before
\* returned.
NormArg ==
  IF norm_trace = << >> THEN norm_text
  ELSE norm_trace[Len(norm_trace)].result

Called_returns_argument(by, arg) ==
  [by |-> by, arg |-> arg, result |-> arg]

\* A call of one of the two normalizers with what it returned.
Called(by, arg) ==
  [by |-> by, arg |-> arg,
   result |-> IF by = "audit_jokes" THEN normalize_joke(arg)
              ELSE dedup_normalize_joke(arg)]

Normalize(by) ==
  /\ Len(norm_trace) < MaxCalls
  /\ norm_trace' = Append(norm_trace, Called(by, NormArg))
  /\ UNCHANGED << reclassifier_vars, rater_vars, auditor_vars, norm_text,
                  profile_vars, delivery_vars, dedup_vars >>

\* JokesAuditor._normalize_joke
AuditNormalize == Normalize("audit_jokes")

\* normalize_joke of deduplicate_jokes.py
DedupNormalize == Normalize("deduplicate_jokes")

NormalizeNext ==
  \/ AuditNormalize
  \/ DedupNormalize

NormalizeSpec == NormalizeInit /\ [][NormalizeNext]_vars

\* ------------------------------------------------------- the user profile
\* The keys of the profile data that its methods read: name, groan_counter,
\* the display settings and created_date are left out.  A date is a number
\* of days, 0 standing for None.  The config file is taken to be writable.
DefaultUserData ==
  [corniness_level |-> 3,
   total_jokes_heard |-> 0,
   favorite_jokes |-> << >>,
   joke_history |-> << >>,
   daily_joke_date |-> 0,
   setup_completed |-> FALSE,
   achievements |-> << >>]

NoFile == [none |-> TRUE]

\* load_user_data: the file's content if there is a file, else the default.
load_user_data(file) == IF file = NoFile THEN DefaultUserData ELSE file

\* What a method call left behind: its name, the joke and the level it was
\* given ("" and 0 when it takes none), and what it returned, as Python
\* prints it.
Call(name, joke, level, value) ==
  << [call |-> name, joke |-> joke, level |-> level, value |-> value] >>

IsFavorite(favorites, joke) ==
  \E k \in DOMAIN favorites : favorites[k].joke = joke

favorite_entry(joke, corniness_level, now) ==
  [joke |-> joke, corniness |-> corniness_level, added_date |-> now]

\* The list comprehension of remove_from_favorites.
Without(favorites, joke) == SelectSeq(favorites, LAMBDA fav : fav.joke # joke)

\* A UserProfile constructed in a home directory without a config file.
FreshProfile ==
  /\ config_file = NoFile
  /\ user_data = load_user_data(config_file)
  /\ today \in 1..MaxDays
  /\ returned = << >>
  /\ console = << >>
  /\ added = << >>

ProfileInit ==
  /\ Start({Missing})
  /\ NoRater
  /\ NoAuditor
  /\ NoNormalizer
  /\ NoDelivery
  /\ NoDedup
  /\ FreshProfile

Elsewhere ==
  << reclassifier_vars, rater_vars, auditor_vars, normalizer_vars,
     dedup_vars >>

\* self.data changed and save_user_data called.
Saved(d) ==
  /\ user_data' = d
  /\ config_file' = d

\* complete_setup with a level the setup prompt lets through.
CompleteSetup(corniness_level) ==
  /\ ~user_data.setup_completed
  /\ Saved([user_data EXCEPT !.corniness_level = corniness_level,
                             !.setup_completed = TRUE])
  /\ returned' = Call("complete_setup", "", corniness_level, "None")
  /\ UNCHANGED << Elsewhere, delivery_vars, today, console, added >>

SetCorninessLevel_clamps(level) ==
  /\ IF 1 <= level /\ level <= 5
     THEN /\ Saved([user_data EXCEPT !.corniness_level = level])
          /\ returned' = Call("set_corniness_level", "", level, "True")
     ELSE /\ Saved([user_data EXCEPT !.corniness_level = IF level < 1 THEN 1 ELSE 5])
          /\ returned' = Call("set_corniness_level", "", level, "False")
  /\ UNCHANGED << Elsewhere, delivery_vars, today, console, added >>

\* set_corniness_level
SetCorninessLevel(level) ==
  /\ IF 1 <= level /\ level <= 5
     THEN /\ Saved([user_data EXCEPT !.corniness_level = level])
          /\ returned' = Call("set_corniness_level", "", level, "True")
     ELSE /\ UNCHANGED << user_data, config_file >>
          /\ returned' = Call("set_corniness_level", "", level, "False")
  /\ UNCHANGED << Elsewhere, delivery_vars, today, console, added >>

AddToFavorites_unchecked(joke, corniness_level) ==
  /\ Saved([user_data EXCEPT !.favorite_jokes =
              Append(@, favorite_entry(joke, corniness_level, today))])
  /\ returned' = Call("add_to_favorites", joke, corniness_level, "True")
  /\ UNCHANGED << Elsewhere, delivery_vars, today, console, added >>

\* add_to_favorites
AddToFavorites(joke, corniness_level) ==
  /\ IF IsFavorite(user_data.favorite_jokes, joke)
     THEN /\ UNCHANGED << user_data, config_file >>
          /\ returned' = Call("add_to_favorites", joke, corniness_level, "False")
     ELSE /\ Saved([user_data EXCEPT !.favorite_jokes =
                      Append(@, favorite_entry(joke, corniness_level, today))])
          /\ returned' = Call("add_to_favorites", joke, corniness_level, "True")
  /\ UNCHANGED << Elsewhere, delivery_vars, today, console, added >>

\* remove_from_favorites
RemoveFromFavorites(joke) ==
  /\ IF IsFavorite(user_data.favorite_jokes, joke)
     THEN /\ Saved([user_data EXCEPT !.favorite_jokes = Without(@, joke)])
          /\ returned' = Call("remove_from_favorites", joke, 0, "True")
     ELSE /\ user_data' = [user_data EXCEPT !.favorite_jokes = Without(@, joke)]
          /\ UNCHANGED config_file
          /\ returned' = Call("remove_from_favorites", joke, 0, "False")
  /\ UNCHANGED << Elsewhere, delivery_vars, today, console, added >>

\* The calendar date moves on.
NextDay ==
  /\ today < MaxDays
  /\ today' = today + 1
  /\ UNCHANGED << Elsewhere, delivery_vars, user_data, config_file, returned,
                  console, added >>

\* The next command runs in a new process, which constructs its UserProfile
\* from the config file.
Restart ==
  /\ user_data' = load_user_data(config_file)
  /\ returned' = << >>
  /\ console' = << >>
  /\ UNCHANGED << Elsewhere, delivery_vars, config_file, today, added >>

\* The levels handed to set_corniness_level, and those a joke is made a
\* favorite with.
LevelInputs == 0..6

FavoriteLevels == { 1, 5 }

ProfileNext ==
  \/ \E l \in Levels : CompleteSetup(l)
  \/ \E l \in LevelInputs : SetCorninessLevel(l)
  \/ \E joke \in Jokes, l \in FavoriteLevels : AddToFavorites(joke, l)
  \/ \E joke \in Jokes : RemoveFromFavorites(joke)
  \/ NextDay
  \/ Restart

ProfileSpec == ProfileInit /\ [][ProfileNext]_vars

\* ------------------------------------------------------- the joke delivery
\* None, and the empty joke that create_joke_package takes for it.
NoJoke == ""

\* The first n jokes of the pool.
FirstJokes(n) == [k \in 1..n |-> JokePool[k]]

\* The jokes_data a JokeManager loads: every level, or the levels 1..3 only,
\* holding the same list of jokes.
Corpora ==
  { [l \in ls |-> FirstJokes(n)] :
      ls \in { Levels, 1..3 }, n \in 0..Min(NumJokes, Len(JokePool)) }

\* available_jokes of get_joke_by_level for the list of a level.
Available(level_jokes, avoid_recent) ==
  IF Len(SelectSeq(level_jokes, LAMBDA joke : ~Contains(avoid_recent, joke))) < 3
  THEN level_jokes
  ELSE SelectSeq(level_jokes, LAMBDA joke : ~Contains(avoid_recent, joke))

\* What random.choice may return from a list, the generator being in a state
\* nobody chose.
Choices(list) == { list[k] : k \in DOMAIN list }

\* What random.choice returns from a list right after random.seed(seed): one
\* element, a function of the seed and the length of the list.
SeededChoice(list, seed) == list[(seed % Len(list)) + 1]

\* get_joke_by_level: the jokes it may return.
get_joke_by_level(loaded, corniness_level, avoid_recent) ==
  IF corniness_level \notin DOMAIN loaded THEN { NoJoke }
  ELSE IF Available(loaded[corniness_level], avoid_recent) = << >> THEN { NoJoke }
  ELSE Choices(Available(loaded[corniness_level], avoid_recent))

\* get_daily_joke: get_joke_by_level between random.seed(today.toordinal())
\* and random.seed().
DailyChoice(loaded, corniness_level, date) ==
  IF corniness_level \notin DOMAIN loaded THEN NoJoke
  ELSE IF loaded[corniness_level] = << >> THEN NoJoke
  ELSE SeededChoice(Available(loaded[corniness_level], << >>), date)

\* The pair get_daily_joke returns.
get_daily_joke(loaded, corniness_level, date) ==
  [joke |-> DailyChoice(loaded, corniness_level, date), level |-> corniness_level]

\* create_joke_package: the jokes of the packages it may return, NoJoke
\* standing for the None it returns when it got no joke.
create_joke_package(loaded, corniness_level, avoid_recent) ==
  get_joke_by_level(loaded, corniness_level, avoid_recent)

\* create_daily_joke_package: of the pair of get_daily_joke the level goes to
\* create_joke_package, which gets its joke from get_joke_by_level after the
\* random.seed() of get_daily_joke; the joke of the pair is not used.
create_daily_joke_package(loaded, corniness_level, date) ==
  create_joke_package(loaded,
                      get_daily_joke(loaded, corniness_level, date).level, << >>)

\* A daily package as its caller got it, with the date of the call.
Package(date, corniness_level, joke) ==
  [date |-> date, corniness_level |-> corniness_level, joke |-> joke,
   is_daily |-> joke # NoJoke]

\* A JokeManager with its jokes loaded and a JokeDelivery on it.
DeliveryInit ==
  /\ Start({Missing})
  /\ NoRater
  /\ NoAuditor
  /\ NoNormalizer
  /\ NoDedup
  /\ user_data = [none |-> TRUE]
  /\ config_file = [none |-> TRUE]
  /\ today = 1
  /\ returned = << >>
  /\ console = << >>
  /\ added = << >>
  /\ manager_jokes \in Corpora
  /\ packages = << >>

\* The levels daily packages are asked at.
PackageLevels == { 3, 5 }

\* create_daily_joke_package called on the date today.
CreateDailyJokePackage(corniness_level) ==
  /\ Len(packages) < MaxPackages
  /\ \E joke \in create_daily_joke_package(manager_jokes, corniness_level, today) :
       packages' = Append(packages, Package(today, corniness_level, joke))
  /\ UNCHANGED << Elsewhere, manager_jokes, profile_vars >>

DeliveryNext ==
  \/ \E l \in PackageLevels : CreateDailyJokePackage(l)
  \/ NextDay

DeliverySpec == DeliveryInit /\ [][DeliveryNext]_vars

\* ---------------------------------------------- history, achievements, daily
history_limit == 50

\* achievements_to_check, without the descriptions.
achievements_to_check ==
  << [threshold |-> 1, title |-> "First Steps"],
     [threshold |-> 5, title |-> "Getting Started"],
     [threshold |-> 15, title |-> "Pun Enthusiast"],
     [threshold |-> 30, title |-> "Joke Collector"],
     [threshold |-> 50, title |-> "Corn Connoisseur"],
     [threshold |-> 100, title |-> "Pun Master"],
     [threshold |-> 200, title |-> "Dad Joke Royalty"] >>

TitlesOf(list) == [k \in DOMAIN list |-> list[k].title]

\* The entry of joke_history; the instant of the call is the rank of the call
\* among the calls of add_joke_to_history.
history_entry(joke, corniness_level, now) ==
  [joke |-> joke, corniness |-> corniness_level, timestamp |-> now]

Truncated_keeps_oldest(history) ==
  IF Len(history) > history_limit THEN SubSeq(history, 1, history_limit)
  ELSE history

\* joke_history[-50:] once there are more than 50.
Truncated(history) ==
  IF Len(history) > history_limit
  THEN SubSeq(history, Len(history) - history_limit + 1, Len(history))
  ELSE history

check_achievements_appends_all(d) ==
  [d EXCEPT !.achievements =
     @ \o TitlesOf(SelectSeq(achievements_to_check,
                             LAMBDA a : d.total_jokes_heard >= a.threshold))]

\* check_achievements: the titles whose threshold is reached and that were
\* not there when it was called are appended in the order of the list.
check_achievements(d) ==
  [d EXCEPT !.achievements =
     @ \o TitlesOf(SelectSeq(achievements_to_check,
                             LAMBDA a : /\ d.total_jokes_heard >= a.threshold
                                        /\ ~Contains(d.achievements, a.title)))]

\* add_joke_to_history, up to the save.
add_joke_to_history(d, joke, corniness_level, now) ==
  check_achievements(
    [d EXCEPT !.joke_history =
                Truncated(Append(@, history_entry(joke, corniness_level, now))),
              !.total_jokes_heard = @ + 1])

mark_daily_joke_seen_never(d, date) == d

\* mark_daily_joke_seen, up to the save.
mark_daily_joke_seen(d, date) == [d EXCEPT !.daily_joke_date = date]

\* get_daily_joke_eligible
get_daily_joke_eligible(d, date) == d.daily_joke_date # date

Heard(joke, corniness_level) == [joke |-> joke, corniness |-> corniness_level]

\* add_joke_to_history called by a command that told a joke.
AddJokeToHistory(joke, corniness_level) ==
  /\ user_data.total_jokes_heard < MaxHeard
  /\ Saved(add_joke_to_history(user_data, joke, corniness_level, Len(added) + 1))
  /\ added' = Append(added, Heard(joke, corniness_level))
  /\ returned' = Call("add_joke_to_history", joke, corniness_level, "None")
  /\ UNCHANGED << Elsewhere, delivery_vars, today, console >>

\* The jokes told: any joke of the pool in the first calls, one joke after.
ToldJokes == IF Len(added) < MaxVaried THEN Jokes ELSE { JokePool[1] }

HistoryInit == ProfileInit

HistoryNext ==
  \/ \E joke \in ToldJokes : AddJokeToHistory(joke, user_data.corniness_level)
  \/ Restart

HistorySpec == HistoryInit /\ [][HistoryNext]_vars

\* The daily command finding today's joke heard already.
DailyRefused ==
  /\ console' = << "already heard today's joke" >>
  /\ UNCHANGED << user_data, config_file, packages, added, today >>

\* The daily command with no package to show.
DailyFailed ==
  /\ console' = << "problem with today's joke" >>
  /\ UNCHANGED << user_data, config_file, packages, added, today >>

\* The daily command showing a joke, marking it seen and adding it to the
\* history, each with its save. The joke is shown on the date the command
\* found it eligible; mark_daily_joke_seen reads the clock again, at `now`.
DailyDelivered(joke, now) ==
  /\ console' = << "daily", joke >>
  /\ packages' = Append(packages, Package(today, user_data.corniness_level, joke))
  /\ Saved(add_joke_to_history(mark_daily_joke_seen(user_data, now), joke,
                               user_data.corniness_level, Len(added) + 1))
  /\ added' = Append(added, Heard(joke, user_data.corniness_level))
  /\ today' = now

\* The daily command of cli.py, once the setup is done (main runs the setup
\* before any command otherwise). One command runs at a time and its saves
\* succeed.
Daily ==
  /\ user_data.setup_completed
  /\ IF ~get_daily_joke_eligible(user_data, today) THEN DailyRefused
     ELSE \E joke \in create_daily_joke_package(manager_jokes,
                                                user_data.corniness_level, today) :
            IF joke = NoJoke THEN DailyFailed
            ELSE \E now \in { today, Min(today + 1, MaxDays) } :
                   DailyDelivered(joke, now)
  /\ returned' = << >>
  /\ UNCHANGED << Elsewhere, manager_jokes >>

\* A fresh profile and a JokeManager with its jokes loaded.
DailyInit ==
  /\ Start({Missing})
  /\ NoRater
  /\ NoAuditor
  /\ NoNormalizer
  /\ NoDedup
  /\ FreshProfile
  /\ manager_jokes \in Corpora
  /\ packages = << >>

DailyNext ==
  \/ \E l \in PackageLevels : CompleteSetup(l)
  \/ Daily
  \/ NextDay
  \/ Restart

DailySpec == DailyInit /\ [][DailyNext]_vars

\* ------------------------------------------------------ deduplicate_jokes
\* The texts of the corpora handed to deduplicate_jokes.
DedupTexts ==
  AuditTexts \cup { "Why did the chicken cross the street? To get to the pond!" }

\* The contents of punnyland/data/jokes.json: the members "1" and "2",
\* holding up to MaxAudited texts between them.
DedupDocs ==
  { [k \in 1..2 |-> [key |-> StrOf(k), jokes |-> IF k = 1 THEN a ELSE b]] :
      <<a, b>> \in UNION { [1..m -> DedupTexts] \X [1..n -> DedupTexts] :
                            <<m, n>> \in { q \in (0..MaxAudited) \X (0..MaxAudited) :
                                             q[1] + q[2] <= MaxAudited } } }

\* are_duplicates
are_duplicates(joke1, joke2, threshold) ==
  IF dedup_normalize_joke(joke1) = dedup_normalize_joke(joke2) THEN TRUE
  ELSE token_set_ratio(dedup_normalize_joke(joke1), dedup_normalize_joke(joke2))[1]
         >= threshold * token_set_ratio(dedup_normalize_joke(joke1),
                                        dedup_normalize_joke(joke2))[2]

is_duplicate_same_text(joke, seen_jokes) == joke \in seen_jokes

\* is_duplicate after the loop over seen_jokes.
is_duplicate(joke, seen_jokes) ==
  \E seen_joke \in seen_jokes : are_duplicates(joke, seen_joke, 85)

\* The loop over the jokes of one level: deduped_list and seen_jokes after it.
RECURSIVE DedupList(_, _, _)
DedupList(joke_list, seen_jokes, deduped_list) ==
  IF joke_list = << >>
  THEN [deduped_list |-> deduped_list, seen_jokes |-> seen_jokes]
  ELSE IF is_duplicate(Head(joke_list), seen_jokes)
       THEN DedupList(Tail(joke_list), seen_jokes, deduped_list)
       ELSE DedupList(Tail(joke_list), seen_jokes \cup { Head(joke_list) },
                      Append(deduped_list, Head(joke_list)))

\* The loop over the levels in the order of the file, from the member k on.
RECURSIVE DedupLevels(_, _, _)
DedupLevels(doc, k, seen_jokes) ==
  IF k > Len(doc) THEN doc
  ELSE DedupLevels(
         [doc EXCEPT ![k].jokes = DedupList(@, seen_jokes, << >>).deduped_list],
         k + 1,
         DedupList(doc[k].jokes, seen_jokes, << >>).seen_jokes)

\* The number of jokes of a document.
RECURSIVE JokeCount(_, _)
JokeCount(doc, k) ==
  IF k > Len(doc) THEN 0 ELSE Len(doc[k].jokes) + JokeCount(doc, k + 1)

DedupInit ==
  /\ Start({Missing})
  /\ NoRater
  /\ NoAuditor
  /\ NoNormalizer
  /\ NoProfile
  /\ NoDelivery
  /\ dedup_file \in DedupDocs
  /\ dedup_input = << >>
  /\ dedup_runs = 0
  /\ dedup_removed = 0

\* deduplicate_jokes: load the file, drop the duplicates, write the file.
\* dedup_input keeps what the run loaded, dedup_removed is duplicates_removed.
DeduplicateJokes ==
  /\ dedup_runs < MaxRuns
  /\ dedup_input' = dedup_file
  /\ dedup_file' = DedupLevels(dedup_file, 1, { })
  /\ dedup_removed' = JokeCount(dedup_file, 1) - JokeCount(dedup_file', 1)
  /\ dedup_runs' = dedup_runs + 1
  /\ UNCHANGED << reclassifier_vars, rater_vars, auditor_vars, normalizer_vars,
                  profile_vars, delivery_vars >>

DedupNext == DeduplicateJokes

DedupSpec == DedupInit /\ [][DedupNext]_vars

\* ================================================================= claims
corpus_file == fs[jokes_file]

corpus_before == pre[jokes_file]

Applying == op = "apply" /\ ~args.dry_run

Applied == Applying /\ pc = "done"

\* The candidates of a plan that need a move, whatever their bucket.
NeedsMove(p) == p.high_confidence \o p.medium_confidence \o p.low_confidence

InLevel(doc, level, joke) ==
  HasKey(doc, StrOf(level)) /\ Contains(ListOf(doc, StrOf(level)), joke)

CountIn(doc, level, joke) ==
  IF HasKey(doc, StrOf(level)) THEN Count(ListOf(doc, StrOf(level)), joke) ELSE 0

BackupHolds(file) ==
  /\ Parses(fs[backup_file])
  /\ Parses(file)
  /\ fs[backup_file].doc = file.doc

C2_NeverPartiallyWritten ==
  (pc = "interrupted" /\ stopped_at \in { "save_open", "save_dump" })
    => \/ corpus_file = corpus_before
       \/ Parses(corpus_file) /\ corpus_file.doc = jokes_data

PatternOf(c) == <<StrOf(c.from_level), StrOf(c.to_level)>>

HighAt(p, pats) ==
  { i \in DOMAIN p.high_confidence : PatternOf(p.high_confidence[i]) \in pats }

MediumAt(p, min_confidence, pats) ==
  { i \in DOMAIN p.medium_confidence :
      /\ p.medium_confidence[i].confidence >= min_confidence
      /\ PatternOf(p.medium_confidence[i]) \in pats }

AllPatterns == { <<StrOf(a), StrOf(b)>> : a \in Levels, b \in Levels }

WouldMove(p, min_confidence, pats) ==
  Cardinality(HighAt(p, pats)) + Cardinality(MediumAt(p, min_confidence, pats))

C4_DryRunTouchesNothing ==
  (op = "apply" /\ args.dry_run)
    => /\ fs = pre
       /\ pc = "done" =>
            /\ DOMAIN result = { "dry_run", "would_move", "patterns" }
            /\ result.dry_run
            /\ result.would_move = WouldMove(plan, args.min_confidence, AllPatterns)
            /\ DOMAIN result.patterns
                 = { pat \in AllPatterns :
                       WouldMove(plan, args.min_confidence, {pat}) > 0 }
            /\ \A pat \in DOMAIN result.patterns :
                 result.patterns[pat] = WouldMove(plan, args.min_confidence, {pat})

C4_Witness ==
  /\ op = "apply"
  /\ args.dry_run
  /\ args.backup
  /\ pc = "done"
  /\ result.would_move > 0
  /\ Parses(corpus_file)

\* C5: after a non-dry-run apply, every candidate of the plan whose
\* confidence is below min_confidence and whose joke was in its source level
\* at the call is still in its source level.
C5_BelowThresholdStays ==
  (Applied /\ Parses(corpus_before))
    => \A i \in DOMAIN NeedsMove(plan) :
         LET c == NeedsMove(plan)[i]
         IN  (c.confidence < args.min_confidence
                /\ InLevel(corpus_before.doc, c.from_level, c.joke))
               => InLevel(corpus_file.doc, c.from_level, c.joke)

\* C6: after a non-dry-run apply, every needs-move candidate of the plan, in
\* whichever bucket, whose confidence reaches min_confidence and whose joke
\* was in its source level has left the source level and is in the target
\* level.
C6_EveryEligibleMoved ==
  (Applied /\ Parses(corpus_before))
    => \A i \in DOMAIN NeedsMove(plan) :
         LET c == NeedsMove(plan)[i]
         IN  (c.confidence >= args.min_confidence
                /\ InLevel(corpus_before.doc, c.from_level, c.joke))
               => /\ CountIn(corpus_file.doc, c.from_level, c.joke)
                       < CountIn(corpus_before.doc, c.from_level, c.joke)
                  /\ InLevel(corpus_file.doc, c.to_level, c.joke)

\* C7: a non-dry-run apply that met candidates whose joke was not in the
\* source level returns normally, leaves the corpus as it was when it skipped
\* them all, and reports the number of skipped moves in its result.
C7_SkippedMovesReported ==
  (Applied /\ moves_applied < Len(candidates_to_move))
    => /\ moves_applied = 0 => corpus_file.doc = corpus_before.doc
       /\ "skipped" \in DOMAIN result
       /\ result.skipped = Len(candidates_to_move) - moves_applied

\* The persisted-corpus shape: exactly the keys "1".."5", every list
\* non-empty, every joke of 1 to 180 characters.
SchemaValid(file) ==
  /\ Parses(file)
  /\ Len(file.doc) = 5
  /\ KeysOf(file.doc) = { "1", "2", "3", "4", "5" }
  /\ \A i \in DOMAIN file.doc :
       /\ file.doc[i].jokes # <<>>
       /\ \A j \in DOMAIN file.doc[i].jokes :
            /\ Features(file.doc[i].jokes[j]).len >= 1
            /\ Features(file.doc[i].jokes[j]).len <= 180

\* C8: analyze on a corpus file that is missing, not JSON or not of the
\* persisted-corpus shape ends in an error with no joke rated.
C8_MalformedCorpusIsFatal ==
  (op = "analyze" /\ ~SchemaValid(corpus_file))
    => pc = "error" /\ rated = 0

\* C9: analyze leaves every file as it is, and an analyze that meets the
\* document and the min_confidence of the analyze that built the plan in hand
\* returns that same plan: same candidates, buckets, order and statistics.
AnalyzeStep == op' = "analyze"

Fresh == analyzed # NoAnalysis /\ Parses(corpus_before) /\ analyzed.doc = corpus_before.doc

C10_ApplyThenReanalyzeConverges ==
  (Applied /\ Fresh)
    => /\ AnalyzeError(corpus_file) = "none"
       /\ LET again == BuildPlan(corpus_file.doc, analyzed.min_confidence)
          IN  /\ \A i \in DOMAIN candidates_to_move :
                   LET c == candidates_to_move[i]
                   IN  InLevel(corpus_before.doc, c.from_level, c.joke)
                         => Contains(again.already_correct,
                                     [c EXCEPT !.from_level = c.to_level])
              /\ Len(NeedsMove(again)) + moves_applied = Len(NeedsMove(plan))
              /\ Len(NeedsMove(again)) <= Len(NeedsMove(plan))
              /\ ApplyMoves(corpus_file.doc,
                            CandidatesToMove(again, args.min_confidence)).moves_applied = 0

C10_Witness ==
  /\ Applied
  /\ Fresh
  /\ moves_applied > 0
  /\ Len(NeedsMove(plan)) > moves_applied

\* The four buckets of a plan.
BucketNames ==
  { "already_correct", "high_confidence", "medium_confidence", "low_confidence" }

BucketsHolding(p, c) == { b \in BucketNames : Contains(p[b], c) }

\* Times a candidate is listed in the plan, over all buckets.
Listed(p, c) ==
  Count(p.already_correct, c) + Count(p.high_confidence, c)
    + Count(p.medium_confidence, c) + Count(p.low_confidence, c)

\* Corpus entries that make the candidate c.
EntriesMaking(doc, c) ==
  { i \in DOMAIN Entries(doc) : Candidate(Entries(doc)[i]) = c }

JustAnalyzed == op = "analyze" /\ pc = "analyzed"

\* The plan in hand partitions the document doc for min_confidence m; the
\* low bucket is claimed for every confidence below m (belowOnly = FALSE) or
\* only for those also below 0.6 (belowOnly = TRUE).
Partitions(p, doc, m, belowOnly) ==
  /\ \A i \in DOMAIN Entries(doc) :
       LET c == Candidate(Entries(doc)[i])
       IN  /\ Cardinality(BucketsHolding(p, c)) = 1
           /\ Listed(p, c) = Cardinality(EntriesMaking(doc, c))
           /\ Contains(p.already_correct, c) <=> c.to_level = c.from_level
           /\ c.to_level # c.from_level =>
                /\ c.confidence >= 600 => Contains(p.high_confidence, c)
                /\ (c.confidence >= m /\ c.confidence < 600)
                     => Contains(p.medium_confidence, c)
                /\ (c.confidence < m /\ (belowOnly => c.confidence < 600))
                     => Contains(p.low_confidence, c)
  /\ Len(p.already_correct) + Len(p.high_confidence)
       + Len(p.medium_confidence) + Len(p.low_confidence)
       = p.statistics.total_jokes

\* C11 (as stated): the plan analyze returns partitions the corpus: every
\* entry is in exactly one bucket, already_correct exactly when predicted and
\* stored level agree, otherwise high at confidence >= 0.6, medium at
\* min_confidence <= confidence < 0.6, low at confidence < min_confidence,
\* and the bucket sizes sum to total_jokes.
C11_PlanPartitionsLowBelowThreshold ==
  JustAnalyzed
    => Partitions(plan, corpus_file.doc, analyzed.min_confidence, FALSE)

\* C11 (amended): the same, with the low bucket holding the entries whose
\* confidence is below both min_confidence and 0.6.
C11_PlanPartitionsCorpus ==
  JustAnalyzed
    => Partitions(plan, corpus_file.doc, analyzed.min_confidence, TRUE)

C11_Witness ==
  /\ JustAnalyzed
  /\ Len(plan.high_confidence) > 0
  /\ Len(plan.low_confidence) > 0
  /\ Partitions(plan, corpus_file.doc, analyzed.min_confidence, TRUE)

\* No list of the document holds the same string twice.
UniqueWithinLevels(doc) ==
  \A i \in DOMAIN doc :
    \A j, k \in DOMAIN doc[i].jokes :
      doc[i].jokes[j] = doc[i].jokes[k] => j = k

\* C12: a non-dry-run apply on a corpus with no string twice in one level
\* leaves a corpus with no string twice in one level.
C12_UniquenessPreserved ==
  (Applied /\ Parses(corpus_before) /\ UniqueWithinLevels(corpus_before.doc))
    => UniqueWithinLevels(corpus_file.doc)

\* C13: a non-dry-run apply on a corpus with exactly the keys "1".."5" and
\* every list non-empty writes a corpus with exactly the keys "1".."5" and
\* every list non-empty.
C13_ShapePreserved ==
  (Applied /\ SchemaValid(corpus_before)) => SchemaValid(corpus_file)

\* The levels holding the largest of the scores.
ArgMax(sc) == { l \in Levels : \A k \in Levels : sc[k] <= sc[l] }

Lowest(levels) == CHOOSE l \in levels : \A k \in levels : l <= k

\* A level of 1..5 whose score is at least 0 and at most the sum of the five.
WinnerWithin(level, sc) ==
  /\ level \in Levels
  /\ sc[level] >= 0
  /\ sc[level] <= SumScores(sc)

\* What rate_corniness returns is a level of 1..5 and a confidence in [0, 1].
InRange(r) ==
  /\ r.level \in Levels
  /\ r.den > 0
  /\ 0 <= r.num
  /\ r.num <= r.den

\* The same for rate_corniness_improved.
ImprovedInRange(r) ==
  /\ r.level \in Levels
  /\ r.confidence[2] > 0
  /\ 0 <= r.confidence[1]
  /\ r.confidence[1] <= r.confidence[2]

\* C14: for every text, all-punctuation and all-digit ones included, and for
\* every score vector, both raters return a level in 1..5 and a confidence in
\* [0, 1], the winning score being at least 0 and at most the sum of the five
\* scores.
C14_LevelAndConfidenceInRange ==
  /\ \A i \in DOMAIN corniness :
       InRange(corniness[i]) /\ WinnerWithin(corniness[i].level, Scores(text))
  /\ \A i \in DOMAIN improved_corniness :
       /\ ImprovedInRange(improved_corniness[i])
       /\ WinnerWithin(improved_corniness[i].level, ImprovedScores(text))
  /\ \A i \in DOMAIN best :
       InRange(best[i]) /\ WinnerWithin(best[i].level, scores)
  /\ \A i \in DOMAIN improved_best :
       /\ ImprovedInRange(improved_best[i])
       /\ WinnerWithin(improved_best[i].level, scores)

C14_Witness ==
  /\ given = "text"
  /\ text = TextPool[2]
  /\ corniness # << >>
  /\ improved_corniness # << >>
  /\ InRange(corniness[1])
  /\ ImprovedInRange(improved_corniness[1])

\* A text with no keyword, pattern, pun, question mark or exclamation mark
\* for JokeRater and no setup pattern, pun indicator, question format, marker
\* or pun for ImprovedJokeRater.
Neutral(joke) ==
  /\ \A l \in Levels : Features(joke).kw[l] = 0 /\ Features(joke).pt[l] = 0
  /\ Features(joke).puns = 0
  /\ Features(joke).q = 0
  /\ Features(joke).e = 0
  /\ \A l \in Levels :
       /\ ~ImprovedFeatures(joke).setup[l]
       /\ ImprovedFeatures(joke).ind[l] = 0
       /\ ~ImprovedFeatures(joke).qf[l]
       /\ ImprovedFeatures(joke).mk[l] = 0
  /\ ~ImprovedFeatures(joke).qa
  /\ ImprovedFeatures(joke).puns = 0

\* C15: a neutral or empty text is rated level 1 with a confidence below 0.4,
\* by either rater.
C15_NeutralIsLowestAndUnsure ==
  (given = "text" /\ Neutral(text))
    => /\ \A i \in DOMAIN corniness :
            /\ corniness[i].level = 1
            /\ 5 * corniness[i].num < 2 * corniness[i].den
       /\ \A i \in DOMAIN improved_corniness :
            /\ improved_corniness[i].level = 1
            /\ 5 * improved_corniness[i].confidence[1]
                 < 2 * improved_corniness[i].confidence[2]

\* C16: the level either rater returns is the lowest-numbered of the levels
\* that hold the largest score, whatever else the input is.
C16_LowestOfTheBest ==
  /\ \A i \in DOMAIN corniness :
       corniness[i].level = Lowest(ArgMax(Scores(text)))
  /\ \A i \in DOMAIN improved_corniness :
       improved_corniness[i].level = Lowest(ArgMax(ImprovedScores(text)))
  /\ \A i \in DOMAIN best : best[i].level = Lowest(ArgMax(scores))
  /\ \A i \in DOMAIN improved_best :
       improved_best[i].level = Lowest(ArgMax(scores))

C16_Witness ==
  /\ given = "scores"
  /\ ArgMax(scores) = { 2, 3, 5 }
  /\ best # << >>
  /\ improved_best # << >>
  /\ best[1].level = 2
  /\ improved_best[1].level = 2

\* What the claims about validate_content say of one verdict v on the
\* content c with the explanation markers found.
Has(issues, issue) == \E i \in DOMAIN issues : issues[i] = issue

Clean(c, markers) ==
  /\ c.len >= min_length
  /\ c.len <= max_length
  /\ c.ascii
  /\ c.forbidden = << >>
  /\ markers = << >>

Accepts(v, c, markers, alsoNotBlank) ==
  /\ (Clean(c, markers) /\ (alsoNotBlank => ~c.blank))
       => v.ok /\ v.issues = << >>
  /\ v.ok <=> v.issues = << >>

\* C17 (as stated): a text of 10 to 180 characters, ASCII only, with no
\* forbidden word and no explanation marker is accepted with no issue, and
\* ok is true exactly when there is no issue.
C17_CleanTextAccepted ==
  /\ \A i \in DOMAIN validity :
       Accepts(validity[i], Content(text), Content(text).markers, FALSE)
  /\ \A i \in DOMAIN improved_validity :
       Accepts(improved_validity[i], Content(text),
               Content(text).improved_markers, FALSE)

\* C17 (amended): the same for the texts that are not whitespace only.
C17_CleanVisibleTextAccepted ==
  /\ \A i \in DOMAIN validity :
       Accepts(validity[i], Content(text), Content(text).markers, TRUE)
  /\ \A i \in DOMAIN improved_validity :
       Accepts(improved_validity[i], Content(text),
               Content(text).improved_markers, TRUE)

C17_Witness ==
  /\ given = "text"
  /\ text = TextPool[3]
  /\ Clean(Content(text), Content(text).markers)
  /\ validity # << >>
  /\ improved_validity # << >>
  /\ validity[1].ok
  /\ improved_validity[1].ok

\* Every violated check has its own issue in the verdict, and nothing else
\* is in it.
ReportsAll(v, c, markers) ==
  /\ c.len > max_length
       => /\ ~v.ok
          /\ Has(v.issues, [kind |-> "Too long", len |-> c.len, max |-> max_length])
  /\ c.len < min_length
       => Has(v.issues, [kind |-> "Too short", len |-> c.len, min |-> min_length])
  /\ c.blank => Has(v.issues, Issue("Empty joke"))
  /\ \A w \in DOMAIN c.forbidden :
       Has(v.issues, [kind |-> "Contains forbidden word", word |-> c.forbidden[w]])
  /\ \A w \in DOMAIN markers :
       Has(v.issues, [kind |-> "Contains explanation", word |-> markers[w]])
  /\ (~c.ascii /\ ~c.allowed)
       => Has(v.issues, Issue("Contains non-ASCII characters"))
  /\ Len(v.issues)
       = B(c.len > max_length, 1) + B(c.len < min_length, 1) + B(c.blank, 1)
           + Len(c.forbidden) + Len(markers) + B(~c.ascii /\ ~c.allowed, 1)
  /\ c.len = 0
       => /\ ~v.ok
          /\ Has(v.issues, [kind |-> "Too short", len |-> 0, min |-> min_length])
          /\ Has(v.issues, Issue("Empty joke"))

\* C18: validate_content reports every violated check as its own issue: a
\* text over 180 characters is refused with a length issue naming its length
\* and the maximum whatever else is wrong with it, and the empty string is
\* refused with a too-short and an empty issue.
C18_EveryIssueReported ==
  /\ \A i \in DOMAIN validity :
       ReportsAll(validity[i], Content(text), Content(text).markers)
  /\ \A i \in DOMAIN improved_validity :
       ReportsAll(improved_validity[i], Content(text),
                  Content(text).improved_markers)

C18_Witness ==
  /\ given = "text"
  /\ text = TextPool[6]
  /\ validity # << >>
  /\ ~validity[1].ok
  /\ Len(validity[1].issues) = 3
  /\ validity[1].issues[1].kind = "Too long"

\* The corpus of the auditor as detect_duplicates lists it, and its result.
Corpus == CollectFrom(auditor_jokes, 1)

Returned == audit_pc = "returned"

Reported == audit_result[1].duplicates

\* The pair of the entries at a and b is among the reported ones.
Reports(a, b) ==
  \E k \in DOMAIN Reported :
    {Reported[k].joke1, Reported[k].joke2} = {Side(Corpus[a]), Side(Corpus[b])}

\* C19: duplicate detection reports every pair of corpus entries whose
\* normalized texts are equal, whatever similarity was computed for them:
\* two entries that both normalize to the empty string and two identical
\* strings in different levels among them.
C19_EqualNormalizedReported ==
  Returned =>
    \A a, b \in DOMAIN Corpus :
      a < b /\ normalize_joke(Corpus[a].joke) = normalize_joke(Corpus[b].joke)
        => Reports(a, b)

PairsOf(n) == { p \in (1..n) \X (1..n) : p[1] < p[2] }

\* Every unordered pair of distinct positions was compared exactly once, no
\* entry with itself, total_comparisons says so, and no pair is reported
\* twice.
ComparesEachPairOnce ==
  Returned =>
    /\ { compared[k] : k \in DOMAIN compared } = PairsOf(Len(Corpus))
    /\ Len(compared) = Cardinality(PairsOf(Len(Corpus)))
    /\ Len(compared) = (Len(Corpus) * (Len(Corpus) - 1)) \div 2
    /\ audit_result[1].total_comparisons = Len(compared)
    /\ \A k \in DOMAIN compared : compared[k][1] # compared[k][2]
    /\ \A k, m \in DOMAIN Reported :
         k # m => {Reported[k].joke1, Reported[k].joke2}
                    # {Reported[m].joke1, Reported[m].joke2}

\* The corpus holds one text in level 1 and the same text in level 2, and
\* nothing else.
SameTextInBothLevels ==
  /\ Len(ListOf(auditor_jokes, "1")) = 1
  /\ Len(ListOf(auditor_jokes, "2")) = 1
  /\ ListOf(auditor_jokes, "1")[1] = ListOf(auditor_jokes, "2")[1]

OnePairAtHundred ==
  /\ audit_result[1].duplicates_found = 1
  /\ Len(Reported) = 1
  /\ Reported[1].similarity[1] = 100 * Reported[1].similarity[2]

\* C20: detect_duplicates compares every unordered pair of distinct corpus
\* positions exactly once, n*(n-1)/2 comparisons for n entries, never an
\* entry with itself, and reports a pair at most once; for a corpus holding
\* the same text once in level 1 and once in level 2 it returns exactly one
\* pair, with similarity 100.
C20_EachPairOnceSameTextOnePair ==
  /\ ComparesEachPairOnce
  /\ Returned /\ SameTextInBothLevels => OnePairAtHundred

\* What a text looks like: blank when it holds nothing but white space and
\* punctuation, kept when it holds an apostrophe or an underscore, tidy when
\* it has no leading, trailing or consecutive white space.
Shape(joke) ==
  CASE joke = "Why did the chicken cross the road? To get to the other side!" ->
         [blank |-> FALSE, kept |-> FALSE, tidy |-> TRUE]
    [] joke = "why did the chicken cross the road - to get to the other side" ->
         [blank |-> FALSE, kept |-> FALSE, tidy |-> TRUE]
    [] joke = "!!!!!!!!!!!!" ->
         [blank |-> TRUE, kept |-> FALSE, tidy |-> TRUE]
    [] joke = "What do you call a bear with no teeth? A gummy bear!" ->
         [blank |-> FALSE, kept |-> FALSE, tidy |-> TRUE]
    [] joke = "Why did the chicken cross the street? To get to the other side!" ->
         [blank |-> FALSE, kept |-> FALSE, tidy |-> TRUE]
    [] joke = "" ->
         [blank |-> TRUE, kept |-> FALSE, tidy |-> TRUE]
    [] joke = "     " ->
         [blank |-> TRUE, kept |-> FALSE, tidy |-> FALSE]
    [] joke = "'" ->
         [blank |-> TRUE, kept |-> TRUE, tidy |-> TRUE]
    [] joke = "___" ->
         [blank |-> TRUE, kept |-> TRUE, tidy |-> TRUE]
    [] joke = "?! _ '" ->
         [blank |-> TRUE, kept |-> TRUE, tidy |-> TRUE]
    [] joke = "  Hello,   World!  " ->
         [blank |-> FALSE, kept |-> FALSE, tidy |-> FALSE]
    [] joke = "Don't  STOP -- believin'" ->
         [blank |-> FALSE, kept |-> TRUE, tidy |-> FALSE]
    [] joke = "A\tB\nC" ->
         [blank |-> FALSE, kept |-> FALSE, tidy |-> TRUE]
    [] joke = "Caf\\u00e9 \\u2014 NA\\u00cfVE" ->
         [blank |-> FALSE, kept |-> FALSE, tidy |-> TRUE]
    [] joke = "\\u2026 \\u201c\\u201d \\u2019" ->
         [blank |-> TRUE, kept |-> FALSE, tidy |-> TRUE]
    [] joke = "why did the chicken cross the road to get to the other side" ->
         [blank |-> FALSE, kept |-> FALSE, tidy |-> TRUE]
    [] joke = "what do you call a bear with no teeth a gummy bear" ->
         [blank |-> FALSE, kept |-> FALSE, tidy |-> TRUE]
    [] joke = "why did the chicken cross the street to get to the other side" ->
         [blank |-> FALSE, kept |-> FALSE, tidy |-> TRUE]
    [] joke = "_ '" ->
         [blank |-> TRUE, kept |-> TRUE, tidy |-> TRUE]
    [] joke = "hello world" ->
         [blank |-> FALSE, kept |-> FALSE, tidy |-> TRUE]
    [] joke = "don't stop believin'" ->
         [blank |-> FALSE, kept |-> TRUE, tidy |-> TRUE]
    [] joke = "a b c" ->
         [blank |-> FALSE, kept |-> FALSE, tidy |-> TRUE]
    [] OTHER ->
         [blank |-> FALSE, kept |-> FALSE, tidy |-> TRUE]

\* Every call returned a tidy text, and a call made on what the call before
\* returned gave it back unchanged.
IdempotentAndTidy ==
  \A k \in DOMAIN norm_trace :
    /\ Shape(norm_trace[k].result).tidy
    /\ k > 1 => norm_trace[k].result = norm_trace[k].arg

RECURSIVE SumSet(_, _)
SumSet(f, S) ==
  IF S = {} THEN 0
  ELSE SumSet(f, S \ {CHOOSE x \in S : TRUE}) + f[CHOOSE x \in S : TRUE]

\* How often a joke stands under a key, and in a document.
CountUnder(doc, k, joke) ==
  IF HasKey(doc, k) THEN Count(ListOf(doc, k), joke) ELSE 0

Occurrences(doc, joke) ==
  Cardinality({ e \in DOMAIN Entries(doc) : Entries(doc)[e].joke = joke })

TextsOf(doc) == { Entries(doc)[e].joke : e \in DOMAIN Entries(doc) }

\* The occurrences that stand under a key after and did not before.
Arrived(before, after) ==
  SumSet([s \in KeysOf(after) \X TextsOf(after) |->
            IF CountUnder(after, s[1], s[2]) > CountUnder(before, s[1], s[2])
            THEN CountUnder(after, s[1], s[2]) - CountUnder(before, s[1], s[2])
            ELSE 0],
         KeysOf(after) \X TextsOf(after))

\* C26: a non-dry-run apply keeps the multiset of all joke strings over all
\* levels, and so their number, and its moves_applied is the number of
\* occurrences that changed level.
C26_JokesConserved ==
  (Applied /\ Parses(corpus_before)) =>
    /\ Parses(corpus_file)
    /\ \A joke \in TextsOf(corpus_before.doc) \cup TextsOf(corpus_file.doc) :
         Occurrences(corpus_file.doc, joke) = Occurrences(corpus_before.doc, joke)
    /\ Len(Entries(corpus_file.doc)) = Len(Entries(corpus_before.doc))
    /\ result.moves_applied = Arrived(corpus_before.doc, corpus_file.doc)

\* An apply moved both occurrences of a joke out of a level that held it
\* twice.
C26_Witness ==
  /\ Applied
  /\ Parses(corpus_before)
  /\ result.moves_applied = 2
  /\ \E k \in KeysOf(corpus_before.doc), joke \in Jokes :
       /\ CountUnder(corpus_before.doc, k, joke) = 2
       /\ CountUnder(corpus_file.doc, k, joke) = 0

BackedUp == { "collect", "save_open", "save_dump", "done" }

Favorites == user_data.favorite_jokes

\* No joke text stands twice in a list of favorites.
OncePerText(favorites) ==
  \A k, m \in DOMAIN favorites :
    favorites[k].joke = favorites[m].joke => k = m

\* What add_to_favorites(joke, ...) is to do in a step.
AddsOnce(joke) ==
  IF IsFavorite(Favorites, joke)
  THEN /\ returned'[1].value = "False"
       /\ user_data'.favorite_jokes = Favorites
       /\ config_file' = config_file
  ELSE /\ returned'[1].value = "True"
       /\ Len(user_data'.favorite_jokes) = Len(Favorites) + 1
       /\ SubSeq(user_data'.favorite_jokes, 1, Len(Favorites)) = Favorites
       /\ user_data'.favorite_jokes[Len(Favorites) + 1].joke = joke
       /\ config_file' = user_data'

\* C22: after any sequence of add_to_favorites and remove_from_favorites
\* calls the favorites hold at most one entry per joke text; add_to_favorites
\* returns True and appends exactly when the text is not yet a favorite, and
\* otherwise returns False and leaves the favorites and the saved file as
\* they were.
C22_AddToFavoritesIdempotent ==
  /\ [](OncePerText(Favorites)
          /\ (config_file # NoFile => OncePerText(config_file.favorite_jokes)))
  /\ [][\A joke \in Jokes, l \in FavoriteLevels :
          AddToFavorites(joke, l) => AddsOnce(joke)]_vars

\* A joke that is a favorite at one level was added again at another level
\* and refused, with every joke a favorite.
C22_Witness ==
  /\ returned # << >>
  /\ returned[1].call = "add_to_favorites"
  /\ returned[1].value = "False"
  /\ Len(Favorites) = Cardinality(Jokes)
  /\ \E k \in DOMAIN Favorites :
       /\ Favorites[k].joke = returned[1].joke
       /\ Favorites[k].corniness # returned[1].level

\* What set_corniness_level(level) is to do in a step.
SetsInRange(level) ==
  IF level \in 1..5
  THEN /\ returned'[1].value = "True"
       /\ user_data'.corniness_level = level
       /\ config_file' = user_data'
  ELSE /\ returned'[1].value = "False"
       /\ user_data' = user_data
       /\ config_file' = config_file

\* C25: set_corniness_level(level) stores and saves the level and returns
\* True exactly when 1 <= level <= 5; for any other value it returns False
\* and leaves the stored level and the saved profile as they were; a stored
\* level in 1..5 stays in 1..5.
C25_LevelStaysInRange ==
  /\ [](user_data.corniness_level \in 1..5
          /\ (config_file # NoFile => config_file.corniness_level \in 1..5))
  /\ [][\A level \in LevelInputs :
          SetCorninessLevel(level) => SetsInRange(level)]_vars

\* Level 5 was accepted after the setup, and the file holds it.
C25_Witness ==
  /\ user_data.setup_completed
  /\ returned # << >>
  /\ returned = Call("set_corniness_level", "", 5, "True")
  /\ user_data.corniness_level = 5
  /\ config_file # NoFile
  /\ config_file.corniness_level = 5

\* C23: for a fixed corpus and a fixed corniness level, every daily joke
\* package created on the same calendar date carries the same joke text.
C23_SameJokeSameDay ==
  \A k, m \in DOMAIN packages :
    (/\ packages[k].date = packages[m].date
     /\ packages[k].corniness_level = packages[m].corniness_level)
      => packages[k].joke = packages[m].joke

\* The packages delivered by the daily command on the date `date`.
DeliveredOn(date) == { k \in DOMAIN packages : packages[k].date = date }

\* What a daily command is to do in a step.
DeliversOncePerDate ==
  IF user_data.daily_joke_date = today
  THEN /\ console' = << "already heard today's joke" >>
       /\ packages' = packages
       /\ user_data'.joke_history = user_data.joke_history
       /\ user_data'.total_jokes_heard = user_data.total_jokes_heard
       /\ config_file' = config_file
  ELSE create_daily_joke_package(manager_jokes, user_data.corniness_level, today)
         # { NoJoke }
       => /\ Len(packages') = Len(packages) + 1
          /\ packages'[Len(packages')].date = today
          /\ user_data'.daily_joke_date = today'
          /\ user_data'.total_jokes_heard = user_data.total_jokes_heard + 1
          /\ config_file' = user_data'

\* C24: the daily command delivers at most one daily joke per calendar date:
\* once a daily joke has been delivered and marked seen, a later daily command
\* on the same date, in the same process or a later one, delivers no joke,
\* reports that today's joke was already heard and changes neither the
\* history nor total_jokes_heard; once the date has changed the command
\* delivers again.
C24_OneDailyJokePerDate ==
  /\ [](/\ \A date \in 1..MaxDays : Cardinality(DeliveredOn(date)) <= 1
        /\ DeliveredOn(today) # {} => ~get_daily_joke_eligible(user_data, today))
  /\ [][Daily => DeliversOncePerDate]_vars

\* A joke was delivered on each of two dates, and a further daily command on
\* the second date was refused.
C24_Witness ==
  /\ console = << "already heard today's joke" >>
  /\ today = 2
  /\ Len(packages) = 2
  /\ packages[1].date = 1
  /\ packages[2].date = 2
  /\ user_data.total_jokes_heard = 2
  /\ Len(user_data.joke_history) = 2

History == user_data.joke_history

\* The rank, among all calls, of the call that wrote the entry k of a
\* history of the given length.
RankOf(k, length) == Len(added) - length + k

\* The history is the last min(n, 50) of the n jokes added, in their order.
MostRecent(history) ==
  /\ Len(history) = Min(Len(added), 50)
  /\ \A k \in DOMAIN history :
       /\ history[k].joke = added[RankOf(k, Len(history))].joke
       /\ history[k].corniness = added[RankOf(k, Len(history))].corniness
       /\ history[k].timestamp = RankOf(k, Len(history))

\* C28: after any sequence of add_joke_to_history calls joke_history has at
\* most 50 entries and is the most recent min(n, 50) added jokes in the order
\* they were added, in memory and in the saved file; total_jokes_heard is the
\* number of calls and grows by exactly 1 with each call.
C28_HistoryKeepsLastFifty ==
  /\ [](/\ Len(History) <= 50
        /\ MostRecent(History)
        /\ user_data.total_jokes_heard = Len(added)
        /\ (config_file # NoFile =>
              /\ MostRecent(config_file.joke_history)
              /\ config_file.total_jokes_heard = Len(added)))
  /\ [][\A joke \in Jokes :
          AddJokeToHistory(joke, user_data.corniness_level) =>
            user_data'.total_jokes_heard = user_data.total_jokes_heard + 1]_vars

\* Fifty-two jokes were added: the history holds the last fifty, from the
\* third on, and two different jokes were among those dropped or kept.
C28_Witness ==
  /\ Len(added) = 52
  /\ user_data.total_jokes_heard = 52
  /\ Len(History) = 50
  /\ History[1].timestamp = 3
  /\ History[50].timestamp = 52
  /\ added[1].joke # added[2].joke

Achieved == user_data.achievements

\* The threshold of a title of achievements_to_check.
ThresholdOf(title) ==
  (CHOOSE a \in { achievements_to_check[k] : k \in DOMAIN achievements_to_check } :
     a.title = title).threshold

\* Each title at most once, the title of threshold t there exactly when
\* total_jokes_heard >= t, titles in increasing order of threshold.
AwardedInOrder(list, total) ==
  /\ \A k, m \in DOMAIN list : k < m => list[k] # list[m]
  /\ \A k \in DOMAIN achievements_to_check :
       Contains(list, achievements_to_check[k].title)
         <=> total >= achievements_to_check[k].threshold
  /\ \A k, m \in DOMAIN list : k < m => ThresholdOf(list[k]) < ThresholdOf(list[m])

\* C29: after any sequence of add_joke_to_history calls from a fresh profile
\* the achievements hold each title at most once, hold the title of threshold
\* t (1, 5, 15, 30, 50, 100, 200) exactly when total_jokes_heard >= t, and
\* list the titles in increasing threshold order; a title once there stays.
C29_AchievementsOnceInOrder ==
  /\ [](/\ AwardedInOrder(Achieved, user_data.total_jokes_heard)
        /\ (config_file # NoFile =>
              AwardedInOrder(config_file.achievements,
                             config_file.total_jokes_heard)))
  /\ [][\A k \in DOMAIN Achieved :
          /\ k \in DOMAIN user_data'.achievements
          /\ user_data'.achievements[k] = Achieved[k]]_vars

\* The two hundredth joke was just added and brought the last of the seven
\* titles.
C29_Witness ==
  /\ returned # << >>
  /\ returned[1].call = "add_joke_to_history"
  /\ user_data.total_jokes_heard = 200
  /\ Len(Achieved) = 7
  /\ Achieved[1] = "First Steps"
  /\ Achieved[7] = "Dad Joke Royalty"

\* The places of the jokes of a document, and the level-then-list order.
Places(doc) == UNION { { <<k, n>> : n \in DOMAIN doc[k].jokes } : k \in DOMAIN doc }

Earlier(p, q) == p[1] < q[1] \/ (p[1] = q[1] /\ p[2] < q[2])

\* The jokes of a list at the positions kept, in the order of the list.
Restricted(list, kept) ==
  [n \in 1..Cardinality(kept) |->
     list[CHOOSE x \in kept : Cardinality({ y \in kept : y <= x }) = n]]

\* No two jokes of the document are duplicates of each other.
NoDuplicates(doc) ==
  \A p, q \in Places(doc) :
    p # q => ~are_duplicates(doc[p[1]].jokes[p[2]], doc[q[1]].jokes[q[2]], 85)

\* The output is the input with some places dropped, every level keeping its
\* key and the order of its jokes, and every dropped joke a duplicate of a
\* joke kept at an earlier place.
DropsOnlyDuplicates(input, output) ==
  \E kept \in SUBSET Places(input) :
    /\ Len(output) = Len(input)
    /\ \A k \in DOMAIN input :
         /\ output[k].key = input[k].key
         /\ output[k].jokes =
              Restricted(input[k].jokes,
                         { n \in DOMAIN input[k].jokes : <<k, n>> \in kept })
    /\ \A p \in Places(input) \ kept :
         \E q \in kept :
           /\ Earlier(q, p)
           /\ are_duplicates(input[p[1]].jokes[p[2]], input[q[1]].jokes[q[2]], 85)

\* C30: after deduplicate_jokes no two jokes remaining in the corpus, within
\* or across levels, are duplicates under are_duplicates at threshold 85; a
\* joke is dropped only if it is a duplicate of a joke kept earlier in
\* level-then-list order, the kept jokes keep their order and level, and a
\* run on the output of a run removes nothing.
C30_DeduplicateLeavesNoDuplicates ==
  /\ dedup_runs >= 1 =>
       /\ NoDuplicates(dedup_file)
       /\ DropsOnlyDuplicates(dedup_input, dedup_file)
       /\ dedup_removed = JokeCount(dedup_input, 1) - JokeCount(dedup_file, 1)
  /\ dedup_runs >= 2 =>
       /\ dedup_file = dedup_input
       /\ dedup_removed = 0

\* One run on a corpus whose second joke duplicates the first and the third
\* the second, but not the first: the second was dropped, the third kept.
C30_Witness ==
  /\ dedup_runs = 1
  /\ dedup_removed = 1
  /\ Len(dedup_input[1].jokes) = 1
  /\ Len(dedup_input[2].jokes) = 2
  /\ are_duplicates(dedup_input[1].jokes[1], dedup_input[2].jokes[1], 85)
  /\ are_duplicates(dedup_input[2].jokes[1], dedup_input[2].jokes[2], 85)
  /\ ~are_duplicates(dedup_input[1].jokes[1], dedup_input[2].jokes[2], 85)
  /\ dedup_file[1].jokes = dedup_input[1].jokes
  /\ dedup_file[2].jokes = << dedup_input[2].jokes[2] >>

====
